---- MODULE Spec2Model ----
(***************************************************************************)
(* Plugin lifecycle of unified_mcp_server: PluginRegistry (the live plugin *)
(* map), BasePlugin (status, safe_initialize, safe_cleanup), the host      *)
(* ToolRegistry and PluginSecurity (validation, permission resolution).    *)
(*                                                                         *)
(* The registry's operations are asyncio coroutines: a coroutine runs      *)
(* without interruption until it awaits the plugin's own initialize() or   *)
(* cleanup(), where any other coroutine may run.  One action of the model  *)
(* is one such uninterrupted segment of a coroutine.                       *)
(***************************************************************************)
EXTENDS Integers, Sequences, FiniteSets, TLC

\* Bounds of the model.
MaxInst == 3        \* plugin objects constructed in one behaviour
MaxTasks == 2       \* lifecycle coroutines in flight at the same time
MaxOps == 3         \* lifecycle operations started in one behaviour

Tasks == 1..MaxTasks
Insts == 1..MaxInst
NoInst == 0

\* PluginStatus (base.py); "absent" marks an instance id not yet constructed.
DISCOVERED == "discovered"
LOADING == "loading"
LOADED == "loaded"
ACTIVE == "active"
ERROR == "error"
UNLOADING == "unloading"
UNLOADED == "unloaded"
PluginStatus == {DISCOVERED, LOADING, LOADED, ACTIVE, ERROR, UNLOADING, UNLOADED}

\* PluginPermission (security.py): the closed set of 13 flags.
PluginPermission ==
  {"read_files", "write_files", "execute_commands", "network_access",
   "http_requests", "system_info", "environment_vars", "tool_composition",
   "other_tools", "database_read", "database_write", "config_read",
   "config_write"}

\* PluginSecurity.default_permissions.
default_permissions ==
  [p \in PluginPermission |-> p \in {"system_info", "tool_composition", "config_read"}]

(***************************************************************************)
(* The environment: what is on disk and in os.environ.                     *)
(***************************************************************************)
Names == {"alpha", "beta"}

\* A path is the sequence of its components and a component the sequence of
\* the pieces of its text, so that "plugins_evil" begins with "plugins".
Cwd == <<(<<"srv">>)>>
Home == <<(<<"home">>)>>
InPlugins(file) == Cwd \o <<(<<"plugins">>), file>>

\* A regular, readable file that only its owner can write.
PlainFile(resolved) ==
  [resolved |-> resolved, exists |-> TRUE, is_file |-> TRUE,
   readable |-> TRUE, world_writable |-> FALSE, stat_raises |-> FALSE,
   path_valid |-> TRUE]

\* Candidate locations.  resolved: what Path.resolve() gives; exists,
\* is_file, readable, world_writable, stat_raises: what the file system
\* reports; path_valid: utils.security.validate_path does not raise.
PathFacts ==
  [alpha_py   |-> PlainFile(InPlugins(<<"alpha.py">>)),
   alpha_pkg  |-> [PlainFile(InPlugins(<<"alpha_pkg">>)) EXCEPT !.is_file = FALSE],
   beta_py    |-> PlainFile(InPlugins(<<"beta.py">>)),
   loose_py   |-> [PlainFile(InPlugins(<<"loose.py">>)) EXCEPT !.world_writable = TRUE],
   evil_py    |-> PlainFile(<<(<<"tmp">>), <<"evil.py">>>>),
   sibling_py |-> PlainFile(Cwd \o <<(<<"plugins", "_evil">>), <<"x.py">>>>),
   ext_py     |-> PlainFile(<<(<<"opt">>), <<"ext">>, <<"x.py">>>>),
   plugins_dir |-> [PlainFile(Cwd \o <<(<<"plugins">>)>>) EXCEPT !.is_file = FALSE],
   gone_py    |-> [PlainFile(InPlugins(<<"gone.py">>)) EXCEPT !.exists = FALSE],
   hidden_py  |-> [PlainFile(InPlugins(<<"hidden.py">>)) EXCEPT !.readable = FALSE],
   sealed_py  |-> [PlainFile(InPlugins(<<"sealed.py">>)) EXCEPT !.stat_raises = TRUE],
   odd_py     |-> [PlainFile(InPlugins(<<"odd.py">>)) EXCEPT !.path_valid = FALSE],
   stub_py    |-> PlainFile(InPlugins(<<"stub.py">>))]

\* Every location validate_plugin is called with.
Locations == DOMAIN PathFacts

\* The locations the lifecycle operations are given.
Paths == {"alpha_py", "alpha_pkg", "beta_py", "loose_py", "evil_py", "stub_py"}

\* default_dirs of _is_plugin_path_allowed, expanded and resolved:
\* "plugins/", "~/.aichemistforge/plugins/", "./custom_plugins/".
default_dirs ==
  <<Cwd \o <<(<<"plugins">>)>>,
    Home \o <<(<<".aichemistforge">>), <<"plugins">>>>,
    Cwd \o <<(<<"custom_plugins">>)>>>>

\* The values config.plugin_directories is given (resolved).
ConfigChoices == {<<>>, <<(<<(<<"opt">>), <<"ext">>>>)>>}

RECURSIVE str(_)
\* str(path): the text of a resolved path, "/" before each component.
str(path) ==
  IF path = <<>> THEN <<>> ELSE <<"/">> \o Head(path) \o str(Tail(path))

\* text.startswith(prefix)
startswith(text, prefix) ==
  Len(prefix) <= Len(text) /\ SubSeq(text, 1, Len(prefix)) = prefix

\* What discovery finds at a location: the plugin_info dictionary
\* (name, path, and whether the class can be instantiated and is compliant:
\* "ok", or "incomplete" for a subclass of BasePlugin that leaves one of its
\* abstract methods out).
NoInfo == [name |-> "", path |-> "", class |-> ""]
InfoAt ==
  [alpha_py  |-> [name |-> "alpha", path |-> "alpha_py",  class |-> "ok"],
   alpha_pkg |-> [name |-> "alpha", path |-> "alpha_pkg", class |-> "ok"],
   beta_py   |-> [name |-> "beta",  path |-> "beta_py",   class |-> "ok"],
   loose_py  |-> [name |-> "beta",  path |-> "loose_py",  class |-> "ok"],
   evil_py   |-> [name |-> "beta",  path |-> "evil_py",   class |-> "ok"],
   stub_py   |-> [name |-> "beta",  path |-> "stub_py",   class |-> "incomplete"]]

\* What discover_plugins() returns: the candidates of the scanned directories.
Discovered == <<InfoAt.alpha_py, InfoAt.loose_py, InfoAt.beta_py, InfoAt.stub_py>>

\* The plugins and flags grant_permission / revoke_permission are called with.
OverrideNames == {"alpha"}
OverridePerms == {"write_files"}

\* os.environ as the lifecycle operations find it: the items in order, each
\* key as its "_"-separated tokens, with its value.
Environ ==
  <<(<<(<<"PLUGIN", "ALPHA", "TIMEOUT">>), "30">>),
    (<<(<<"PLUGIN", "BETA", "MODE">>), "fast">>)>>

\* The values os.environ has when PluginSecurity is constructed.
EnvironChoices ==
  {<<>>,
   Environ,
   <<(<<(<<"PLUGIN", "SECURITY", "ALPHA", "WRITE", "FILES">>), "true">>)>>,
   <<(<<(<<"PLUGIN", "SECURITY", "ALPHA", "SYSTEM", "INFO">>), "off">>),
     (<<(<<"PLUGIN", "SECURITY", "BETA", "WRITE", "FILES">>), "Yes">>)>>,
   <<(<<(<<"PLUGIN", "SECURITY", "BETA", "BOGUS">>), "1">>)>>}

\* plugin_name.upper().replace("-", "_"), as tokens.
UpperTokens ==
  [alpha |-> <<"ALPHA">>, beta |-> <<"BETA">>,
   alpha_extra |-> <<"ALPHA", "EXTRA">>, security |-> <<"SECURITY">>]

\* The value of each PluginPermission member in upper case, as tokens.
PermTokens ==
  [read_files |-> <<"READ", "FILES">>,
   write_files |-> <<"WRITE", "FILES">>,
   execute_commands |-> <<"EXECUTE", "COMMANDS">>,
   network_access |-> <<"NETWORK", "ACCESS">>,
   http_requests |-> <<"HTTP", "REQUESTS">>,
   system_info |-> <<"SYSTEM", "INFO">>,
   environment_vars |-> <<"ENVIRONMENT", "VARS">>,
   tool_composition |-> <<"TOOL", "COMPOSITION">>,
   other_tools |-> <<"OTHER", "TOOLS">>,
   database_read |-> <<"DATABASE", "READ">>,
   database_write |-> <<"DATABASE", "WRITE">>,
   config_read |-> <<"CONFIG", "READ">>,
   config_write |-> <<"CONFIG", "WRITE">>]

\* str.lower() of the tokens and values that occur.
lower == [PLUGIN |-> "plugin", ALPHA |-> "alpha", BETA |-> "beta",
          TIMEOUT |-> "timeout", MODE |-> "mode",
          Alpha |-> "alpha", alpha |-> "alpha", beta |-> "beta",
          SECURITY |-> "security", WRITE |-> "write", FILES |-> "files",
          SYSTEM |-> "system", INFO |-> "info", BOGUS |-> "bogus",
          true |-> "true", off |-> "off", Yes |-> "yes", fast |-> "fast",
          EXTRA |-> "extra", KEY |-> "key"]
         @@ ("1" :> "1") @@ ("30" :> "30")

\* "_".join(tokens) of the lower-case tokens that occur as plugin names.
join ==
  (<<"alpha">> :> "alpha") @@ (<<"beta">> :> "beta")
    @@ (<<"alpha", "write">> :> "alpha_write")
    @@ (<<"alpha", "system">> :> "alpha_system")
    @@ (<<"beta", "write">> :> "beta_write")

(***************************************************************************)
(* Python dict, as the sequence of its (key, value) items in insertion     *)
(* order.                                                                  *)
(***************************************************************************)
Keys(d) == {d[i][1] : i \in DOMAIN d}
Has(d, k) == k \in Keys(d)
Get(d, k) == d[CHOOSE i \in DOMAIN d : d[i][1] = k][2]
Put(d, k, v) ==
  IF Has(d, k)
  THEN [i \in DOMAIN d |-> IF d[i][1] = k THEN <<k, v>> ELSE d[i]]
  ELSE Append(d, <<k, v>>)
Del(d, k) == SelectSeq(d, LAMBDA e : e[1] # k)
KeyList(d) == [i \in DOMAIN d |-> d[i][1]]
Reversed(s) == [i \in DOMAIN s |-> s[Len(s) + 1 - i]]

VARIABLES
  plugins,             \* PluginRegistry.plugins: name -> instance
  plugin_info,         \* PluginRegistry.plugin_info: name -> plugin_info
  tools,               \* ToolRegistry._tools: name -> instance
  instances,           \* every BasePlugin object constructed so far
  next_inst,           \* the identity of the next object
  started,             \* lifecycle operations started so far
  plugin_permissions,  \* PluginSecurity.plugin_permissions (the overrides)
  task,                \* the lifecycle coroutines
  plugin_directories,  \* config.plugin_directories
  sec,                 \* the last direct call of PluginSecurity and its result
  environ,             \* os.environ
  inspected,           \* the last status inspection and what it returned
  validated_directories, \* PluginDiscovery.validated_directories
  disc,                \* the last direct call of PluginDiscovery and its result
  executed             \* the candidates whose module the registry has exec_module'd

vars == <<plugins, plugin_info, tools, instances, next_inst, started,
          plugin_permissions, task, plugin_directories, sec, environ,
          inspected, validated_directories, disc, executed>>

(***************************************************************************)
(* BasePlugin objects.                                                     *)
(***************************************************************************)
AbsentInstance ==
  [status |-> "absent", name |-> "", plugin_path |-> "",
   permissions |-> [p \in PluginPermission |-> FALSE], configuration |-> {},
   initialize_calls |-> 0, cleanup_calls |-> 0, load_result |-> "",
   history |-> <<>>]

\* BasePlugin.__init__ followed by discovery.load_plugin's plugin_path.
\* history: the values self.status has been assigned, in order.
NewInstance(info) ==
  [AbsentInstance EXCEPT !.status = DISCOVERED, !.name = info.name,
                         !.plugin_path = info.path,
                         !.history = <<DISCOVERED>>]

(***************************************************************************)
(* PluginSecurity.                                                         *)
(***************************************************************************)
\* utils.security.validate_path: returns, or raises on a path it refuses.
validate_path(path) == PathFacts[path].path_valid

\* True when the text of the resolved path starts with the text of one of
\* the configured or default directories.
_is_plugin_path_allowed(path) ==
  LET all_dirs == plugin_directories \o default_dirs
  IN \E k \in DOMAIN all_dirs :
       startswith(str(PathFacts[path].resolved), str(all_dirs[k]))

\* Faulty variant: the world-writable bit is not looked at.
_validate_file_permissions_ReadableOnly(path) ==
  PathFacts[path].readable /\ ~PathFacts[path].stat_raises

\* False when the file is not readable, stat() raises, or the mode has the
\* world-writable bit.
_validate_file_permissions(path) ==
  /\ PathFacts[path].readable
  /\ ~PathFacts[path].stat_raises
  /\ ~PathFacts[path].world_writable

\* Faulty variant: only the existence of the path is checked.
validate_plugin_exists_only(path) == PathFacts[path].exists

validate_plugin(path) ==
  /\ validate_path(path)
  /\ PathFacts[path].exists
  /\ _is_plugin_path_allowed(path)
  /\ _validate_file_permissions(path)

\* PluginSecurity.plugin_permissions before anything is stored in it.
NoOverrides == [n \in Names |-> <<>>]

\* plugin_permissions[plugin_name][permission] = enabled, the entry of the
\* plugin created when it is missing.
StoreOverride(overrides, plugin_name, permission, enabled) ==
  IF plugin_name \in DOMAIN overrides
  THEN [overrides EXCEPT ![plugin_name] = (permission :> enabled) @@ @]
  ELSE (plugin_name :> (permission :> enabled)) @@ overrides

\* The values that enable a permission.
Truthy == {"true", "1", "yes", "on"}

RECURSIVE _load_permission_config(_, _)
\* PluginSecurity._load_permission_config over the items of os.environ:
\* the key is split at "_", the last part is the permission and the parts
\* between "PLUGIN_SECURITY" and it are the plugin name.
_load_permission_config(overrides, items) ==
  IF items = <<>> THEN overrides
  ELSE
    LET parts == Head(items)[1]
        value == Head(items)[2]
        permission == lower[parts[Len(parts)]]
        plugin_name ==
          join[[k \in 1..(Len(parts) - 3) |-> lower[parts[k + 2]]]]
        enabled == lower[value] \in Truthy
    IN _load_permission_config(
         IF /\ startswith(parts, <<"PLUGIN", "SECURITY">>)
            /\ Len(parts) >= 4
            /\ permission \in PluginPermission
         THEN StoreOverride(overrides, plugin_name, permission, enabled)
         ELSE overrides,
         Tail(items))

\* Faulty variant: the overrides are updated with the defaults.
get_plugin_permissions_DefaultsWin(overrides, plugin_name) ==
  LET plugin_specific ==
        IF lower[plugin_name] \in DOMAIN overrides
        THEN overrides[lower[plugin_name]] ELSE <<>>
  IN [p \in PluginPermission \cup DOMAIN plugin_specific |->
        IF p \in PluginPermission THEN default_permissions[p]
        ELSE plugin_specific[p]]

\* The defaults updated with the overrides of the plugin's name in lower
\* case.
get_plugin_permissions(overrides, plugin_name) ==
  LET plugin_specific ==
        IF lower[plugin_name] \in DOMAIN overrides
        THEN overrides[lower[plugin_name]] ELSE <<>>
  IN plugin_specific @@ default_permissions

\* PluginRegistry._get_plugin_config: the entries whose key starts with
\* PLUGIN_<NAME>_, keyed by the rest of the key in lower case.
IsPrefix(s, t) == Len(s) <= Len(t) /\ SubSeq(t, 1, Len(s)) = s
_get_plugin_config(plugin_name) ==
  LET prefix == <<"PLUGIN">> \o UpperTokens[plugin_name]
      rest(key) == SubSeq(key, Len(prefix) + 1, Len(key))
      items == {environ[k] : k \in DOMAIN environ}
  IN {<<[k \in DOMAIN rest(e[1]) |-> lower[rest(e[1])[k]]], e[2]>> :
        e \in {x \in items : IsPrefix(prefix, x[1]) /\ Len(x[1]) > Len(prefix)}}

(***************************************************************************)
(* The registries as one value R, so that the segments of a coroutine can  *)
(* be composed.                                                            *)
(***************************************************************************)
Registry ==
  [plugins |-> plugins, plugin_info |-> plugin_info, tools |-> tools,
   instances |-> instances, next_inst |-> next_inst, executed |-> executed]

SetStatus(R, i, st) ==
  [R EXCEPT !.instances[i].status = st,
            !.instances[i].history = Append(@, st)]

\* Faulty variant: a taken name is silently overwritten.
register_tool_overwrite(R, name, i) ==
  [r |-> [R EXCEPT !.tools = Put(R.tools, name, i)], raised |-> FALSE]

\* ToolRegistry.register_tool: raises ValueError when the name is taken.
register_tool(R, name, i) ==
  IF Has(R.tools, name) THEN [r |-> R, raised |-> TRUE]
  ELSE [r |-> [R EXCEPT !.tools = Put(R.tools, name, i)], raised |-> FALSE]

\* ToolRegistry.unregister_tool.
unregister_tool(R, name) == [R EXCEPT !.tools = Del(R.tools, name)]

\* Faulty variant: a new object of a name that was loaded before takes over
\* the permissions of the latest object of that name.
LoadBegin_CarryOverPermissions(R, overrides, info) ==
  IF ~validate_plugin(info.path)
  THEN [r |-> R, out |-> "none", inst |-> NoInst]
  ELSE IF info.class # "ok"
  THEN [r |-> R, out |-> "raised", inst |-> NoInst]
  ELSE
    LET i == R.next_inst
        earlier == {j \in 1..(i - 1) : R.instances[j].name = info.name}
        latest == CHOOSE j \in earlier : \A k \in earlier : k <= j
        obj == [NewInstance(info) EXCEPT
                  !.permissions =
                     IF earlier = {}
                     THEN get_plugin_permissions(overrides, info.name)
                     ELSE R.instances[latest].permissions,
                  !.configuration = _get_plugin_config(info.name),
                  !.status = LOADING,
                  !.history = Append(@, LOADING),
                  !.initialize_calls = 1]
    IN [r |-> [R EXCEPT !.instances[i] = obj, !.next_inst = i + 1],
        out |-> "await", inst |-> i]

\* Faulty variant: initialize() is awaited on the object as constructed,
\* before its permissions and configuration are set.
LoadBegin_InitializeFirst(R, overrides, info) ==
  IF ~validate_plugin(info.path)
  THEN [r |-> R, out |-> "none", inst |-> NoInst]
  ELSE IF info.class # "ok"
  THEN [r |-> R, out |-> "raised", inst |-> NoInst]
  ELSE
    LET i == R.next_inst
        obj == [NewInstance(info) EXCEPT !.status = LOADING,
                                         !.history = Append(@, LOADING),
                                         !.initialize_calls = 1]
    IN [r |-> [R EXCEPT !.instances[i] = obj, !.next_inst = i + 1],
        out |-> "await", inst |-> i]

\* Faulty variant: a load of a name that was unloaded initializes the
\* unloaded object again instead of constructing one.
LoadBegin_ReuseUnloaded(R, overrides, info) ==
  IF ~validate_plugin(info.path)
  THEN [r |-> R, out |-> "none", inst |-> NoInst]
  ELSE IF info.class # "ok"
  THEN [r |-> R, out |-> "raised", inst |-> NoInst]
  ELSE
    LET unloaded == {j \in 1..(R.next_inst - 1) :
                       /\ R.instances[j].name = info.name
                       /\ R.instances[j].status = UNLOADED}
        i == IF unloaded = {} THEN R.next_inst ELSE CHOOSE j \in unloaded : TRUE
        old == IF unloaded = {} THEN NewInstance(info) ELSE R.instances[i]
        obj == [old EXCEPT
                  !.permissions = get_plugin_permissions(overrides, info.name),
                  !.configuration = _get_plugin_config(info.name),
                  !.status = LOADING,
                  !.history = Append(@, LOADING),
                  !.initialize_calls = @ + 1]
    IN [r |-> [R EXCEPT !.instances[i] = obj,
                        !.next_inst = IF unloaded = {} THEN i + 1 ELSE @],
        out |-> "await", inst |-> i]

\* Faulty variant: the class is instantiated whatever it implements.
LoadBegin_AnyClass(R, overrides, info) ==
  IF ~validate_plugin(info.path)
  THEN [r |-> R, out |-> "none", inst |-> NoInst]
  ELSE
    LET i == R.next_inst
        obj == [NewInstance(info) EXCEPT
                  !.permissions = get_plugin_permissions(overrides, info.name),
                  !.configuration = _get_plugin_config(info.name),
                  !.status = LOADING,
                  !.history = Append(@, LOADING),
                  !.initialize_calls = 1]
    IN [r |-> [R EXCEPT !.instances[i] = obj, !.next_inst = i + 1],
        out |-> "await", inst |-> i]

\* _load_and_register_plugin up to the await of initialize(): security
\* validation, discovery.load_plugin (instantiating a class that leaves an
\* abstract method out raises), permissions, configuration, and
\* safe_initialize up to its await.
\* out: "none" (returned None), "raised", or "await" (suspended in
\* initialize() of instance inst).
LoadBegin(R, overrides, info) ==
  IF ~validate_plugin(info.path)
  THEN [r |-> R, out |-> "none", inst |-> NoInst]
  ELSE IF info.class # "ok"
  THEN [r |-> R, out |-> "raised", inst |-> NoInst]
  ELSE
    LET i == R.next_inst
        obj == [NewInstance(info) EXCEPT
                  !.permissions = get_plugin_permissions(overrides, info.name),
                  !.configuration = _get_plugin_config(info.name),
                  !.status = LOADING,
                  !.history = Append(@, LOADING),
                  !.initialize_calls = 1]
    IN [r |-> [R EXCEPT !.instances[i] = obj, !.next_inst = i + 1],
        out |-> "await", inst |-> i]

\* safe_initialize after initialize() returned (ok) or raised.
safe_initialize_end(R, i, ok) == SetStatus(R, i, IF ok THEN LOADED ELSE ERROR)

\* _load_and_register_plugin from the return of initialize() to its end.
\* out: "plugin" (returned the instance), "none", or "raised"; the
\* instance's load_result records it.
LoadReturn(R, i, out) ==
  [r |-> [R EXCEPT !.instances[i].load_result = out], out |-> out]

\* Faulty variant: the instance is stored in the live map before it is registered.
LoadEnd_StoreBeforeRegister(R, info, i, ok) ==
  LET R1 == safe_initialize_end(R, i, ok)
      R2 == [R1 EXCEPT !.plugins = Put(@, info.name, i),
                       !.plugin_info = Put(@, info.name, info)]
      reg == register_tool(R2, info.name, i)
  IN IF ~ok THEN LoadReturn(R1, i, "none")
     ELSE IF reg.raised THEN LoadReturn(R2, i, "raised")
     ELSE LoadReturn(SetStatus(reg.r, i, ACTIVE), i, "plugin")

LoadEnd(R, info, i, ok) ==
  LET R1 == safe_initialize_end(R, i, ok)
  IN IF ~ok THEN LoadReturn(R1, i, "none")
     ELSE
       LET reg == register_tool(R1, info.name, i)
           R3 == [reg.r EXCEPT !.plugins = Put(@, info.name, i),
                               !.plugin_info = Put(@, info.name, info)]
       IN IF reg.raised THEN LoadReturn(R1, i, "raised")
          ELSE LoadReturn(SetStatus(R3, i, ACTIVE), i, "plugin")

\* unload_plugin up to the await of cleanup().
\* out: "not_found" or "await" (suspended in cleanup() of instance inst).
UnloadBegin(R, name) ==
  IF ~Has(R.plugins, name)
  THEN [r |-> R, out |-> "not_found", inst |-> NoInst]
  ELSE
    LET i == Get(R.plugins, name)
    IN [r |-> [SetStatus(R, i, UNLOADING) EXCEPT
                 !.instances[i].cleanup_calls = @ + 1],
        out |-> "await", inst |-> i]

\* safe_cleanup after cleanup() returned (ok) or raised.
safe_cleanup_end(R, i, ok) == SetStatus(R, i, IF ok THEN UNLOADED ELSE ERROR)

\* Faulty variant: a failed cleanup() aborts the unload.
UnloadEnd_AbortOnCleanupFailure(R, name, i, ok) ==
  LET R0 == safe_cleanup_end(R, i, ok)
      R1 == unregister_tool(R0, name)
  IN IF ~ok THEN [r |-> R0, out |-> "error"]
     ELSE IF ~Has(R1.plugins, name) THEN [r |-> R1, out |-> "error"]
     ELSE [r |-> [R1 EXCEPT !.plugins = Del(R1.plugins, name),
                            !.plugin_info = Del(R1.plugin_info, name)],
           out |-> "success"]

\* unload_plugin from the return of cleanup() to its end.
\* out: "success", or "error" (del self.plugins[name] raised KeyError).
UnloadEnd(R, name, i, ok) ==
  LET R1 == unregister_tool(safe_cleanup_end(R, i, ok), name)
  IN IF ~Has(R1.plugins, name) THEN [r |-> R1, out |-> "error"]
     ELSE [r |-> [R1 EXCEPT !.plugins = Del(R1.plugins, name),
                            !.plugin_info = Del(R1.plugin_info, name)],
           out |-> "success"]

(***************************************************************************)
(* The coroutines.  A task record holds a coroutine's position (pc), its   *)
(* local variables and, in the state it returns in, its result: a task     *)
(* with pc "done" is the operation that has just returned, and its slot is *)
(* free again with the next step of any task.                              *)
(***************************************************************************)
NoResult ==
  [returned |-> FALSE, success |-> FALSE, error |-> "", total |-> 0,
   count_ok |-> 0, count_failed |-> 0, errors |-> <<>>]

IdleTask ==
  [op |-> "none", pc |-> "idle", path |-> "", name |-> "", info |-> NoInfo,
   inst |-> NoInst, victim |-> NoInst, todo_infos |-> <<>>,
   todo_names |-> <<>>, load_out |-> "", unload_out |-> "",
   cleanup_result |-> "", result |-> NoResult]

\* return {"success": ..., "error": ...}
Return(T, success, error) ==
  [T EXCEPT !.pc = "done", !.result.returned = TRUE,
            !.result.success = success, !.result.error = error]

\* Faulty variant: the batch operation never returns its summary.
ReturnSummary_NeverReturns(T) == [T EXCEPT !.pc = "suspended"]

\* return results (the summary of a batch operation)
ReturnSummary(T) == [T EXCEPT !.pc = "done", !.result.returned = TRUE]

RECURSIVE InitializeLoop(_, _, _)
\* initialize_plugins: the for loop over the discovered candidates, from
\* the candidate at the head of todo_infos on.  T1 is the task at the
\* candidate and b what _load_and_register_plugin does with it.
InitializeLoop(R, T, overrides) ==
  IF T.todo_infos = <<>> THEN [r |-> R, t |-> ReturnSummary(T)]
  ELSE
    LET info == Head(T.todo_infos)
        Body(T1, b) ==
          IF b.out = "await"
          THEN [r |-> b.r, t |-> [T1 EXCEPT !.pc = "initialize", !.inst = b.inst]]
          ELSE InitializeLoop(b.r,
                 [T1 EXCEPT !.load_out = b.out,
                            !.result.count_failed = @ + 1,
                            !.result.errors =
                               IF b.out = "raised" THEN Append(@, info.name) ELSE @],
                 overrides)
    IN CHOOSE x \in
         {Body(T1, b) :
            T1 \in {[T EXCEPT !.todo_infos = Tail(@), !.info = info,
                              !.name = info.name, !.inst = NoInst]},
            b \in {LoadBegin(R, overrides, info)}} : TRUE

\* What the caller of _load_and_register_plugin does with its outcome.
AfterLoad(R, T, overrides, out) ==
  LET T1 == [T EXCEPT !.load_out = out]
  IN CASE T.op = "load_plugin_from_path" ->
            [r |-> R,
             t |-> IF out = "plugin" THEN Return(T1, TRUE, "")
                   ELSE IF out = "none" THEN Return(T1, FALSE, "Failed to load plugin")
                   ELSE Return(T1, FALSE, "Plugin registration failed")]
       [] T.op = "reload_plugin" ->
            [r |-> R,
             t |-> IF out = "plugin" THEN Return(T1, TRUE, "")
                   ELSE IF out = "none" THEN Return(T1, FALSE, "Failed to reload plugin")
                   ELSE Return(T1, FALSE, "Plugin registration failed")]
       [] T.op = "initialize_plugins" ->
            InitializeLoop(R,
              [T1 EXCEPT !.result.count_ok = IF out = "plugin" THEN @ + 1 ELSE @,
                         !.result.count_failed = IF out = "plugin" THEN @ ELSE @ + 1,
                         !.result.errors =
                            IF out = "raised" THEN Append(@, T.info.name) ELSE @],
              overrides)

\* _load_and_register_plugin(info) called by task T.
CallLoad(R, T, overrides, info) ==
  LET T1 == [T EXCEPT !.info = info]
      b == LoadBegin(R, overrides, info)
  IN IF b.out = "await"
     THEN [r |-> b.r, t |-> [T1 EXCEPT !.pc = "initialize", !.inst = b.inst]]
     ELSE AfterLoad(b.r, T1, overrides, b.out)

RECURSIVE ShutdownLoop(_, _)
\* shutdown_all_plugins: the for loop over reversed(plugin_names), from the
\* name at the head of todo_names on.
ShutdownLoop(R, T) ==
  IF T.todo_names = <<>> THEN [r |-> R, t |-> ReturnSummary(T)]
  ELSE
    LET name == Head(T.todo_names)
        T1 == [T EXCEPT !.todo_names = Tail(@), !.name = name]
        b == UnloadBegin(R, name)
    IN IF b.out = "await"
       THEN [r |-> b.r, t |-> [T1 EXCEPT !.pc = "cleanup", !.victim = b.inst]]
       ELSE ShutdownLoop(b.r,
              [T1 EXCEPT !.unload_out = b.out,
                         !.result.count_failed = @ + 1,
                         !.result.errors = Append(@, name)])

\* Faulty variant: reload_plugin loads whatever the unload's result.
AfterUnload_ReloadAnyway(R, T, overrides, out) ==
  LET T1 == [T EXCEPT !.unload_out = out]
  IN CASE T.op = "unload_plugin" ->
            [r |-> R,
             t |-> IF out = "success" THEN Return(T1, TRUE, "")
                   ELSE IF out = "not_found" THEN Return(T1, FALSE, "not found")
                   ELSE Return(T1, FALSE, "KeyError")]
       [] T.op = "reload_plugin" -> CallLoad(R, T1, overrides, T1.info)
       [] T.op = "shutdown_all_plugins" ->
            ShutdownLoop(R,
              IF out = "success"
              THEN [T1 EXCEPT !.result.count_ok = @ + 1]
              ELSE [T1 EXCEPT !.result.count_failed = @ + 1,
                              !.result.errors = Append(@, T.name)])

\* What the caller of unload_plugin does with its result.
AfterUnload(R, T, overrides, out) ==
  LET T1 == [T EXCEPT !.unload_out = out]
  IN CASE T.op = "unload_plugin" ->
            [r |-> R,
             t |-> IF out = "success" THEN Return(T1, TRUE, "")
                   ELSE IF out = "not_found" THEN Return(T1, FALSE, "not found")
                   ELSE Return(T1, FALSE, "KeyError")]
       [] T.op = "reload_plugin" ->
            IF out = "success" THEN CallLoad(R, T1, overrides, T1.info)
            ELSE [r |-> R, t |-> Return(T1, FALSE, "Failed to unload plugin")]
       [] T.op = "shutdown_all_plugins" ->
            ShutdownLoop(R,
              IF out = "success"
              THEN [T1 EXCEPT !.result.count_ok = @ + 1]
              ELSE [T1 EXCEPT !.result.count_failed = @ + 1,
                              !.result.errors = Append(@, T.name)])

\* unload_plugin(name) called by task T.
CallUnload(R, T, overrides, name) ==
  LET T1 == [T EXCEPT !.name = name]
      b == UnloadBegin(R, name)
  IN IF b.out = "await"
     THEN [r |-> b.r, t |-> [T1 EXCEPT !.pc = "cleanup", !.victim = b.inst]]
     ELSE AfterUnload(b.r, T1, overrides, b.out)

\* load_plugin_from_path up to its first await or its return: security
\* validation, then _discover_file_plugin / _discover_directory_plugin,
\* which executes the module, then _load_and_register_plugin.
load_plugin_from_path(R, T0, overrides, path) ==
  LET T == [T0 EXCEPT !.path = path]
      R1 == [R EXCEPT !.executed = @ \cup {path}]
  IN IF ~validate_plugin(path)
     THEN [r |-> R, t |-> Return(T, FALSE, "Plugin failed security validation")]
     ELSE IF InfoAt[path] = NoInfo
     THEN [r |-> R1, t |-> Return(T, FALSE, "No valid plugin found at path")]
     ELSE CallLoad(R1, [T EXCEPT !.name = InfoAt[path].name], overrides, InfoAt[path])

\* initialize_plugins up to its first await or its return:
\* discover_plugins(), which executes the module of every candidate it
\* returns, then the loop over the candidates.
initialize_plugins(R, T, overrides) ==
  InitializeLoop([R EXCEPT !.executed =
                     @ \cup {Discovered[k].path : k \in DOMAIN Discovered}],
                 [T EXCEPT !.todo_infos = Discovered,
                           !.result.total = Len(Discovered)], overrides)

\* reload_plugin up to its first await or its return.
reload_plugin(R, T, overrides, name) ==
  IF ~Has(R.plugins, name)
  THEN [r |-> R, t |-> Return([T EXCEPT !.name = name], FALSE, "not found")]
  ELSE CallUnload(R, [T EXCEPT !.info = Get(R.plugin_info, name)], overrides, name)

\* Faulty variant: the names are taken in the order of loading.
shutdown_all_plugins_InOrder(R, T) ==
  ShutdownLoop(R, [T EXCEPT !.todo_names = KeyList(R.plugins),
                            !.result.total = Len(R.plugins)])

\* shutdown_all_plugins up to its first await or its return.
shutdown_all_plugins(R, T) ==
  ShutdownLoop(R, [T EXCEPT !.todo_names = Reversed(KeyList(R.plugins)),
                            !.result.total = Len(R.plugins)])

(***************************************************************************)
(* PluginDiscovery: what the scanned directories hold.                     *)
(***************************************************************************)
\* An optional value (None, a missing attribute, a missing key) is the
\* empty sequence and a present value v is <<v>>.
Missing == <<>>
Some(v) == <<v>>

\* dataclass PluginMetadata: name, version, description and tags (the
\* other fields are defaulted like tags).
PluginMetadata(name, version, description) ==
  [name |-> name, version |-> version, description |-> description,
   tags |-> {}]

\* A plugin class as discovery reads it: getattr(cls, "metadata", None),
\* getattr(cls, "tool_name", ...), getattr(cls, "version", ...), __doc__.
Class(id, metadata, tool_name, version, doc) ==
  [id |-> id, metadata |-> metadata, tool_name |-> tool_name,
   version |-> version, doc |-> doc]

\* A module file: whether exec_module succeeds and the BasePlugin
\* subclasses dir(module) lists.
Module(source_valid, loads, classes) ==
  [source_valid |-> source_valid, loads |-> loads, classes |-> classes]
NoModule == Module(FALSE, FALSE, <<>>)

\* A child of a scanned directory.  private, hidden: the name starts with
\* "_", with "."; entries: the entry-point files a directory holds, with
\* their modules; metadata_file: "absent", or what json.load does with
\* plugin.json ("parsed" with metadata_dict, or "malformed").
Child ==
  [path |-> "", name |-> "", stem |-> "", suffix |-> "", is_file |-> FALSE, is_dir |-> FALSE,
   private |-> FALSE, hidden |-> FALSE, path_valid |-> TRUE,
   module |-> NoModule,
   plugin_py |-> Missing, init_py |-> Missing,
   metadata_file |-> "absent", metadata_dict |-> <<>>]

FileChild(path, stem, suffix, module) ==
  [Child EXCEPT !.path = path, !.name = stem, !.stem = stem, !.suffix = suffix,
                !.is_file = TRUE, !.module = module]

DirChild(path, name, plugin_py, init_py, metadata_file, metadata_dict) ==
  [Child EXCEPT !.path = path, !.name = name, !.stem = name, !.is_dir = TRUE,
                !.plugin_py = plugin_py, !.init_py = init_py,
                !.metadata_file = metadata_file,
                !.metadata_dict = metadata_dict]

\* A module with the one plugin class given.
One(class) == Module(TRUE, TRUE, <<class>>)

\* str.strip() of the docstrings that occur.
strip == ("" :> "") @@ ("  " :> "") @@ (" Alpha plugin. " :> "Alpha plugin.")
           @@ ("Omega." :> "Omega.")

\* The children by path.
Items ==
  [alpha_py |->
     FileChild("alpha_py", "alpha", ".py",
       One(Class("AlphaPlugin", Missing, Missing, Missing, Some(" Alpha plugin. ")))),
   broken_py |-> FileChild("broken_py", "broken", ".py", Module(TRUE, FALSE, <<>>)),
   empty_py |-> FileChild("empty_py", "empty", ".py", Module(TRUE, TRUE, <<>>)),
   twins_py |->
     FileChild("twins_py", "twins", ".py",
       Module(TRUE, TRUE,
         <<Class("TwinA", Missing, Some("twin_a"), Missing, Some("")),
           Class("TwinB", Missing, Some("twin_b"), Missing, Some(""))>>)),
   bare_py |->
     FileChild("bare_py", "bare", ".py",
       One(Class("BarePlugin", Missing, Missing, Missing, Missing))),
   private_py |->
     [FileChild("private_py", "_private", ".py",
        One(Class("PrivatePlugin", Missing, Missing, Missing, Some(""))))
      EXCEPT !.private = TRUE],
   notes_txt |-> FileChild("notes_txt", "notes", ".txt", NoModule),
   odd_py |->
     [FileChild("odd_py", "odd", ".py",
        One(Class("OddPlugin", Missing, Missing, Missing, Some(""))))
      EXCEPT !.path_valid = FALSE],
   beta_pkg |->
     DirChild("beta_pkg", "beta_pkg",
       Some(One(Class("BetaPlugin",
                  Some(PluginMetadata("beta_cls", "0.1", "Declared.")),
                  Missing, Missing, Some("")))),
       Missing, "parsed",
       [name |-> "beta", version |-> "2.3.1", description |-> "Beta.",
        tags |-> {"experimental"}]),
   zeta_pkg |->
     DirChild("zeta_pkg", "zeta_pkg",
       Some(Module(TRUE, FALSE, <<>>)),
       Some(One(Class("ZetaInit", Missing, Missing, Missing, Some("")))),
       "parsed", [name |-> "zeta", description |-> "Zeta."]),
   delta_pkg |->
     DirChild("delta_pkg", "delta_pkg",
       Missing,
       Some(One(Class("DeltaPlugin", Missing, Some("delta"), Some("0.9"), Some("  ")))),
       "malformed", <<>>),
   epsilon_pkg |->
     DirChild("epsilon_pkg", "epsilon_pkg",
       Some(One(Class("EpsilonPlugin",
                  Some(PluginMetadata("epsilon", "4.0", "Declared.")),
                  Some("ignored"), Missing, Missing))),
       Missing, "absent", <<>>),
   assets |-> DirChild("assets", "assets", Missing, Missing, "absent", <<>>),
   dot_git |-> [DirChild("dot_git", ".git", Missing, Missing, "absent", <<>>)
                EXCEPT !.hidden = TRUE],
   eta_pkg |->
     DirChild("eta_pkg", "eta_pkg",
       Some(One(Class("EtaPlugin",
                  Some(PluginMetadata("eta_cls", "9.9", "Declared.")),
                  Missing, Missing, Missing))),
       Missing, "parsed", [name |-> "eta", description |-> "Eta."]),
   theta_pkg |->
     DirChild("theta_pkg", "theta_pkg",
       Missing,
       Some(One(Class("ThetaPlugin", Missing, Missing, Missing, Some("")))),
       "absent", <<>>),
   omega_py |->
     FileChild("omega_py", "omega", ".py",
       One(Class("OmegaPlugin", Missing, Some("omega"), Some("3.0"), Some("Omega."))))]

\* The directories by resolved path: what exists(), is_dir() and
\* validate_path say of them, whether iterdir() can read them, and their
\* children in the order iterdir() yields them.
Directory(exists, is_dir, readable, path_valid, listing) ==
  [exists |-> exists, is_dir |-> is_dir, readable |-> readable,
   path_valid |-> path_valid, listing |-> listing]

srv_plugins == Cwd \o <<(<<"plugins">>)>>
srv_custom_plugins == Cwd \o <<(<<"custom_plugins">>)>>
home_plugins == Home \o <<(<<".aichemistforge">>), <<"plugins">>>>
srv_locked == Cwd \o <<(<<"locked">>)>>
srv_notes_txt == Cwd \o <<(<<"notes.txt">>)>>
srv_odd == Cwd \o <<(<<"odd">>)>>
opt_ext == <<(<<"opt">>), <<"ext">>>>

Directories ==
  (srv_plugins :>
     Directory(TRUE, TRUE, TRUE, TRUE,
       <<"broken_py", "alpha_py", "twins_py", "private_py", "notes_txt",
         "beta_pkg", "dot_git", "assets", "empty_py", "odd_py">>))
  @@ (srv_custom_plugins :>
     Directory(TRUE, TRUE, TRUE, TRUE,
       <<"delta_pkg", "epsilon_pkg", "bare_py", "zeta_pkg">>))
  @@ (home_plugins :> Directory(FALSE, FALSE, FALSE, TRUE, <<>>))
  @@ (srv_locked :> Directory(TRUE, TRUE, FALSE, TRUE, <<>>))
  @@ (srv_notes_txt :> Directory(TRUE, FALSE, FALSE, TRUE, <<>>))
  @@ (srv_odd :> Directory(TRUE, TRUE, TRUE, FALSE, <<>>))
  @@ (opt_ext :>
     Directory(TRUE, TRUE, TRUE, TRUE, <<"eta_pkg", "omega_py", "theta_pkg">>))

\* Path(directory).expanduser().resolve() of the directory arguments.
resolve ==
  ("plugins/" :> srv_plugins) @@ ("./plugins" :> srv_plugins)
  @@ ("~/.aichemistforge/plugins/" :> home_plugins)
  @@ ("./custom_plugins/" :> srv_custom_plugins)
  @@ ("/srv/locked" :> srv_locked) @@ ("/srv/notes.txt" :> srv_notes_txt)
  @@ ("/srv/odd" :> srv_odd) @@ ("/opt/ext" :> opt_ext)

\* The directory arguments add_plugin_directory is called with.
DirectoryArgs == DOMAIN resolve

\* The default plugin_directories of PluginDiscovery.
DefaultDirectories ==
  <<"plugins/", "~/.aichemistforge/plugins/", "./custom_plugins/">>

\* The plugin_directories PluginDiscovery is constructed with (None: the
\* default).
ConstructorChoices ==
  {Missing,
   Some(<<"/srv/locked", "/opt/ext">>),
   Some(<<"/opt/ext", "plugins/", "./plugins">>),
   Some(<<"/srv/notes.txt", "~/.aichemistforge/plugins/">>)}

(***************************************************************************)
(* PluginDiscovery: its operations.  An operation that can raise gives     *)
(* [raised, value]; the warnings and errors it logs are collected in log.  *)
(***************************************************************************)
Raise(error) == [raised |-> TRUE, error |-> error, value |-> Missing]
Value(v) == [raised |-> FALSE, error |-> "", value |-> Some(v)]

\* dict.get(key, default)
get(dict, key, default) == IF key \in DOMAIN dict THEN dict[key] ELSE default

\* utils.validators.validate_string: returns the string it is given.
validate_string(value) == value

\* base.create_plugin_metadata_from_dict
create_plugin_metadata_from_dict(metadata_dict) ==
  [name |-> validate_string(get(metadata_dict, "name", "")),
   version |-> validate_string(get(metadata_dict, "version", "1.0.0")),
   description |-> validate_string(get(metadata_dict, "description", "")),
   tags |-> get(metadata_dict, "tags", {})]

\* Faulty variant: of several plugin classes the first is taken.
load_plugin_from_file_TakeFirst(module) ==
  IF ~module.source_valid THEN Raise("Invalid path")
  ELSE IF ~module.loads THEN Raise("Cannot load module")
  ELSE IF Len(module.classes) = 0 THEN Raise("No plugin class found")
  ELSE Value(module.classes[1])

\* base.load_plugin_from_file: the one plugin class of the module, ToolError
\* when the path is refused, the module does not load, or it has no plugin
\* class or several.
load_plugin_from_file(module) ==
  IF ~module.source_valid THEN Raise("Invalid path")
  ELSE IF ~module.loads THEN Raise("Cannot load module")
  ELSE IF Len(module.classes) = 0 THEN Raise("No plugin class found")
  ELSE IF Len(module.classes) > 1 THEN Raise("Multiple plugin classes found")
  ELSE Value(module.classes[1])

\* getattr(object, name, default) of an optional attribute.
getattr(attribute, default) ==
  IF attribute = Missing THEN default ELSE attribute[1]

\* The metadata made from the attributes of a class that declares none:
\* the name falls back to the stem, the version to "1.0.0", the description
\* to the stem; __doc__.strip() raises when the class has no docstring.
metadata_from_class(class, stem) ==
  IF class.doc = Missing THEN Raise("'NoneType' object has no attribute 'strip'")
  ELSE Value(PluginMetadata(
               getattr(class.tool_name, stem),
               getattr(class.version, "1.0.0"),
               IF strip[class.doc[1]] # "" THEN strip[class.doc[1]] ELSE stem))

\* The metadata of a class: its own when it declares one.
class_metadata(class, stem) ==
  IF class.metadata = Missing THEN metadata_from_class(class, stem)
  ELSE Value(class.metadata[1])

\* What a _discover_* method returns (None is Missing) and what it logs:
\* the warning for a child, or the error for a directory.
Discovery(info, log) == [info |-> info, log |-> log]
Warning(path, error) == [path |-> path, directory |-> <<>>, error |-> error]
Error(directory, error) == [path |-> "", directory |-> directory, error |-> error]
Failed(path, error) == Discovery(Missing, <<Warning(path, error)>>)

\* The plugin_info dictionary of a candidate.
PluginInfo(type, path, entry_point, metadata_file, class, metadata) ==
  [type |-> type, path |-> path, entry_point |-> entry_point,
   metadata_file |-> metadata_file, class |-> class.id,
   metadata |-> metadata, name |-> metadata.name]

\* PluginDiscovery._discover_file_plugin
_discover_file_plugin(item) ==
  LET loaded == load_plugin_from_file(item.module)
      metadata == class_metadata(loaded.value[1], item.stem)
  IN IF ~item.path_valid THEN Failed(item.path, "Invalid path")
     ELSE IF loaded.raised THEN Failed(item.path, loaded.error)
     ELSE IF metadata.raised THEN Failed(item.path, metadata.error)
     ELSE Discovery(
            Some(PluginInfo("file", item.path, Missing, Missing,
                            loaded.value[1], metadata.value[1])),
            <<>>)

\* The metadata_file part of _discover_directory_plugin: the metadata of
\* plugin.json, None when the file is absent or loading it fails.
load_metadata_file(item) ==
  IF item.metadata_file = "absent" THEN Discovery(Missing, <<>>)
  ELSE IF item.metadata_file = "malformed"
  THEN Failed(item.path, "Failed to load metadata")
  ELSE Discovery(Some(create_plugin_metadata_from_dict(item.metadata_dict)),
                 <<>>)

\* Faulty variant: the metadata the class declares is preferred to the
\* metadata file.
_discover_directory_plugin_ClassFirst(item) ==
  LET plugin_file ==
        IF item.plugin_py # Missing THEN Some("plugin.py")
        ELSE IF item.init_py # Missing THEN Some("__init__.py")
        ELSE Missing
      module == IF item.plugin_py # Missing THEN item.plugin_py[1]
                ELSE item.init_py[1]
      from_file == load_metadata_file(item)
      loaded == load_plugin_from_file(module)
      metadata ==
        IF loaded.value[1].metadata # Missing \/ from_file.info = Missing
        THEN class_metadata(loaded.value[1], item.name)
        ELSE Value(from_file.info[1])
  IN IF ~item.path_valid THEN Failed(item.path, "Invalid path")
     ELSE IF plugin_file = Missing THEN Discovery(Missing, <<>>)
     ELSE IF loaded.raised
     THEN Discovery(Missing, from_file.log \o Failed(item.path, loaded.error).log)
     ELSE IF metadata.raised
     THEN Discovery(Missing, from_file.log \o Failed(item.path, metadata.error).log)
     ELSE Discovery(
            Some(PluginInfo("directory", item.path, plugin_file,
                            IF item.metadata_file = "absent" THEN Missing
                            ELSE Some("plugin.json"),
                            loaded.value[1], metadata.value[1])),
            from_file.log)

\* Faulty variant: a metadata file that cannot be loaded drops the
\* candidate.
_discover_directory_plugin_StrictMetadata(item) ==
  LET plugin_file ==
        IF item.plugin_py # Missing THEN Some("plugin.py")
        ELSE IF item.init_py # Missing THEN Some("__init__.py")
        ELSE Missing
      module == IF item.plugin_py # Missing THEN item.plugin_py[1]
                ELSE item.init_py[1]
      from_file == load_metadata_file(item)
      loaded == load_plugin_from_file(module)
      metadata ==
        IF from_file.info = Missing
        THEN class_metadata(loaded.value[1], item.name)
        ELSE Value(from_file.info[1])
  IN IF ~item.path_valid THEN Failed(item.path, "Invalid path")
     ELSE IF plugin_file = Missing THEN Discovery(Missing, <<>>)
     ELSE IF item.metadata_file = "malformed"
     THEN Discovery(Missing, from_file.log)
     ELSE IF loaded.raised
     THEN Discovery(Missing, from_file.log \o Failed(item.path, loaded.error).log)
     ELSE IF metadata.raised
     THEN Discovery(Missing, from_file.log \o Failed(item.path, metadata.error).log)
     ELSE Discovery(
            Some(PluginInfo("directory", item.path, plugin_file,
                            IF item.metadata_file = "absent" THEN Missing
                            ELSE Some("plugin.json"),
                            loaded.value[1], metadata.value[1])),
            from_file.log)

\* PluginDiscovery._discover_directory_plugin: the entry point is plugin.py,
\* else __init__.py; the metadata is that of plugin.json when it loads, else
\* that of the class.
_discover_directory_plugin(item) ==
  LET plugin_file ==
        IF item.plugin_py # Missing THEN Some("plugin.py")
        ELSE IF item.init_py # Missing THEN Some("__init__.py")
        ELSE Missing
      module == IF item.plugin_py # Missing THEN item.plugin_py[1]
                ELSE item.init_py[1]
      from_file == load_metadata_file(item)
      loaded == load_plugin_from_file(module)
      metadata ==
        IF from_file.info = Missing
        THEN class_metadata(loaded.value[1], item.name)
        ELSE Value(from_file.info[1])
  IN IF ~item.path_valid THEN Failed(item.path, "Invalid path")
     ELSE IF plugin_file = Missing THEN Discovery(Missing, <<>>)
     ELSE IF loaded.raised
     THEN Discovery(Missing, from_file.log \o Failed(item.path, loaded.error).log)
     ELSE IF metadata.raised
     THEN Discovery(Missing, from_file.log \o Failed(item.path, metadata.error).log)
     ELSE Discovery(
            Some(PluginInfo("directory", item.path, plugin_file,
                            IF item.metadata_file = "absent" THEN Missing
                            ELSE Some("plugin.json"),
                            loaded.value[1], metadata.value[1])),
            from_file.log)

\* One round of the loop of _scan_directory.
scan_item(item) ==
  IF item.is_file /\ item.suffix = ".py" /\ ~item.private
  THEN _discover_file_plugin(item)
  ELSE IF item.is_dir /\ ~item.hidden
  THEN _discover_directory_plugin(item)
  ELSE Discovery(Missing, <<>>)

RECURSIVE scan_items(_)
\* The loop of _scan_directory over the children.
scan_items(listing) ==
  IF listing = <<>> THEN Discovery(<<>>, <<>>)
  ELSE LET first == scan_item(Items[Head(listing)])
           rest == scan_items(Tail(listing))
       IN Discovery(first.info \o rest.info, first.log \o rest.log)

\* PluginDiscovery._scan_directory: raises when iterdir() does.
_scan_directory(directory) ==
  IF ~Directories[directory].readable THEN Raise("Permission denied")
  ELSE Value(scan_items(Directories[directory].listing))

RECURSIVE discover_plugins_Propagate(_)
\* Faulty variant: the error of a directory that cannot be scanned is
\* raised to the caller.
discover_plugins_Propagate(directories) ==
  IF directories = <<>> THEN Value(Discovery(<<>>, <<>>))
  ELSE
    LET scanned == _scan_directory(Head(directories))
        rest == discover_plugins_Propagate(Tail(directories))
    IN IF scanned.raised THEN Raise(scanned.error)
       ELSE IF rest.raised THEN rest
       ELSE Value(Discovery(scanned.value[1].info \o rest.value[1].info,
                            scanned.value[1].log \o rest.value[1].log))

RECURSIVE discover_plugins(_)
\* PluginDiscovery.discover_plugins: the plugins of the directories in
\* order; a directory whose scan raises is logged and skipped.
discover_plugins(directories) ==
  IF directories = <<>> THEN Value(Discovery(<<>>, <<>>))
  ELSE
    LET scanned == _scan_directory(Head(directories))
        rest == discover_plugins(Tail(directories))
    IN IF scanned.raised
       THEN Value(Discovery(rest.value[1].info,
                    <<Error(Head(directories), scanned.error)>>
                      \o rest.value[1].log))
       ELSE Value(Discovery(scanned.value[1].info \o rest.value[1].info,
                            scanned.value[1].log \o rest.value[1].log))

RECURSIVE _validate_plugin_directories(_)
\* PluginDiscovery._validate_plugin_directories: the resolved directories
\* that exist, in the order given.
_validate_plugin_directories(given) ==
  IF given = <<>> THEN <<>>
  ELSE
    LET path == resolve[Head(given)]
    IN (IF Directories[path].exists /\ Directories[path].is_dir
        THEN <<path>> ELSE <<>>)
         \o _validate_plugin_directories(Tail(given))

\* PluginDiscovery.__init__: validated_directories.
PluginDiscovery(given) ==
  _validate_plugin_directories(
    IF given = Missing \/ given[1] = <<>> THEN DefaultDirectories
    ELSE given[1])

\* Faulty variant: the directory is appended without looking whether it is
\* in the list.
add_plugin_directory_AlwaysAppend(validated, directory) ==
  LET path == resolve[directory]
  IN IF ~Directories[path].path_valid THEN [returned |-> FALSE, validated |-> validated]
     ELSE IF ~Directories[path].exists THEN [returned |-> FALSE, validated |-> validated]
     ELSE IF ~Directories[path].is_dir THEN [returned |-> FALSE, validated |-> validated]
     ELSE [returned |-> TRUE, validated |-> Append(validated, path)]

\* PluginDiscovery.add_plugin_directory: what it returns and the list it
\* leaves.
add_plugin_directory(validated, directory) ==
  LET path == resolve[directory]
      listed == \E k \in DOMAIN validated : validated[k] = path
  IN IF ~Directories[path].path_valid THEN [returned |-> FALSE, validated |-> validated]
     ELSE IF ~Directories[path].exists THEN [returned |-> FALSE, validated |-> validated]
     ELSE IF ~Directories[path].is_dir THEN [returned |-> FALSE, validated |-> validated]
     ELSE IF ~listed THEN [returned |-> TRUE, validated |-> Append(validated, path)]
     ELSE [returned |-> TRUE, validated |-> validated]

(***************************************************************************)
(* Status inspection.                                                      *)
(***************************************************************************)
\* What get_plugin_status returns for a name that is not in the live map.
None ==
  [found |-> FALSE, name |-> "", status |-> "",
   permissions |-> [p \in PluginPermission |-> FALSE], configuration |-> {}]

\* Faulty variant: a plugin whose unload is in flight is reported as absent.
get_plugin_status_HideUnloading(R, plugin_name) ==
  IF ~Has(R.plugins, plugin_name) THEN None
  ELSE
    LET plugin == R.instances[Get(R.plugins, plugin_name)]
    IN IF plugin.status = UNLOADING THEN None
       ELSE [found |-> TRUE, name |-> plugin.name, status |-> plugin.status,
             permissions |-> plugin.permissions,
             configuration |-> plugin.configuration]

\* PluginRegistry.get_plugin_status: the name, status, permissions and
\* configuration of the live plugin.
get_plugin_status(R, plugin_name) ==
  IF ~Has(R.plugins, plugin_name) THEN None
  ELSE
    LET plugin == R.instances[Get(R.plugins, plugin_name)]
    IN [found |-> TRUE, name |-> plugin.name, status |-> plugin.status,
        permissions |-> plugin.permissions,
        configuration |-> plugin.configuration]

\* BasePlugin.has_permission
has_permission(plugin, permission) == plugin.permissions[permission]

\* PluginRegistry.get_all_plugin_status: the statuses of the names of the
\* live map, in its order, those reported absent left out.
get_all_plugin_status(R) ==
  LET each == [k \in DOMAIN R.plugins |-> get_plugin_status(R, R.plugins[k][1])]
  IN SelectSeq(each, LAMBDA status : status.found)

\* No status inspection yet.
NoInspection ==
  [call |-> "none", arg |-> "", status |-> None, statuses |-> <<>>,
   configuration |-> {}, result |-> FALSE, created |-> 0]

\* No direct call of PluginDiscovery yet.
NoDiscovery ==
  [call |-> "none", arg |-> "", returned |-> FALSE, raised |-> FALSE,
   discovered |-> <<>>, log |-> <<>>]

(***************************************************************************)
(* Actions.                                                                *)
(***************************************************************************)
\* The candidates an object is constructed for.
Loadable(infos) ==
  SelectSeq(infos, LAMBDA d : validate_plugin(d.path) /\ d.class = "ok")

\* The instances a suspended task may still construct.
Pending(T) ==
  IF T.op = "reload_plugin" /\ T.pc \in {"cleanup", "scheduled"} THEN 1
  ELSE Len(Loadable(T.todo_infos))

Free(T) == T.pc \in {"idle", "done"}

\* The tasks with the result of the operation that returned last dropped.
Running == [u \in Tasks |-> IF Free(task[u]) THEN IdleTask ELSE task[u]]

RECURSIVE PendingUpTo(_)
PendingUpTo(n) == IF n = 0 THEN 0 ELSE Pending(Running[n]) + PendingUpTo(n - 1)

\* Room for k more objects.
Room(k) == (next_inst - 1) + PendingUpTo(MaxTasks) + k <= MaxInst

\* Task t is the slot the next coroutine is created in.
CanStart(t) ==
  /\ started < MaxOps
  /\ Free(task[t])
  /\ \A u \in Tasks : u < t => ~Free(task[u])

\* A new coroutine for operation op.
NewTask(op) == [IdleTask EXCEPT !.op = op]

\* One segment of task t ran: it left the registries as X.r and itself as X.t.
Commit(t, X) ==
  \E x \in {X} :
    /\ plugins' = x.r.plugins
    /\ plugin_info' = x.r.plugin_info
    /\ tools' = x.r.tools
    /\ instances' = x.r.instances
    /\ next_inst' = x.r.next_inst
    /\ executed' = x.r.executed
    /\ task' = [Running EXCEPT ![t] = x.t]
    /\ started' = IF Free(task[t]) THEN started + 1 ELSE started
    /\ UNCHANGED <<plugin_permissions, plugin_directories, sec, environ,
                   inspected, validated_directories, disc>>

StartLoadFromPath(t, path) ==
  /\ CanStart(t)
  /\ Room(1)
  /\ Commit(t, load_plugin_from_path(Registry,
         NewTask("load_plugin_from_path"), plugin_permissions, path))

StartInitializePlugins(t) ==
  /\ CanStart(t)
  /\ Room(Len(Loadable(Discovered)))
  /\ Commit(t, initialize_plugins(Registry,
         NewTask("initialize_plugins"), plugin_permissions))

StartUnload(t, name) ==
  /\ CanStart(t)
  /\ Commit(t, CallUnload(Registry,
         NewTask("unload_plugin"), plugin_permissions, name))

StartReload(t, name) ==
  /\ CanStart(t)
  /\ Room(1)
  /\ Commit(t, reload_plugin(Registry,
         NewTask("reload_plugin"), plugin_permissions, name))

StartShutdownAll(t) ==
  /\ CanStart(t)
  /\ Commit(t, shutdown_all_plugins(Registry,
         NewTask("shutdown_all_plugins")))

\* initialize() of the instance task t awaits returns (ok) or raises.
InitializeEnds(t, ok) ==
  /\ task[t].pc = "initialize"
  /\ LET e == LoadEnd(Registry, task[t].info, task[t].inst, ok)
     IN Commit(t, AfterLoad(e.r, task[t], plugin_permissions, e.out))

InitializeReturns(t) == InitializeEnds(t, TRUE)

InitializeRaises(t) == InitializeEnds(t, FALSE)

\* cleanup() of the instance task t awaits returns (ok) or raises.
CleanupEnds(t, ok) ==
  /\ task[t].pc = "cleanup"
  /\ LET e == UnloadEnd(Registry, task[t].name, task[t].victim, ok)
         T == [task[t] EXCEPT !.cleanup_result = IF ok THEN "ok" ELSE "failed"]
     IN Commit(t, AfterUnload(e.r, T, plugin_permissions, e.out))

CleanupReturns(t) == CleanupEnds(t, TRUE)

CleanupRaises(t) == CleanupEnds(t, FALSE)

\* Faulty variant: the plugin's other overrides are dropped.
SetOverride_ReplaceEntry(name, perm, value) ==
  /\ plugin_permissions' =
       [plugin_permissions EXCEPT ![lower[name]] = (perm :> value)]
  /\ task' = Running
  /\ UNCHANGED <<plugins, plugin_info, tools, instances, next_inst, started,
                 plugin_directories, sec, environ, inspected,
                 validated_directories, disc, executed>>

\* Faulty variant: the override is written through to the live plugin.
SetOverride_UpdateLive(name, perm, value) ==
  /\ plugin_permissions' =
       [plugin_permissions EXCEPT ![lower[name]] = (perm :> value) @@ @]
  /\ instances' =
       [i \in Insts |->
          IF Has(plugins, name) /\ Get(plugins, name) = i
          THEN [instances[i] EXCEPT !.permissions[perm] = value]
          ELSE instances[i]]
  /\ task' = Running
  /\ UNCHANGED <<plugins, plugin_info, tools, next_inst, started,
                 plugin_directories, sec, environ, inspected,
                 validated_directories, disc, executed>>

\* PluginSecurity.grant_permission / revoke_permission.
SetOverride(name, perm, value) ==
  /\ plugin_permissions' =
       [plugin_permissions EXCEPT ![lower[name]] = (perm :> value) @@ @]
  /\ task' = Running
  /\ UNCHANGED <<plugins, plugin_info, tools, instances, next_inst, started,
                 plugin_directories, sec, environ, inspected,
                 validated_directories, disc, executed>>

grant_permission(name, perm) == SetOverride(name, perm, TRUE)

revoke_permission(name, perm) == SetOverride(name, perm, FALSE)

\* No direct call of PluginSecurity yet.
NoCall ==
  [call |-> "none", arg |-> "", result |-> FALSE,
   permissions |-> [p \in PluginPermission |-> FALSE]]

Init ==
  /\ plugins = <<>>
  /\ plugin_info = <<>>
  /\ tools = <<>>
  /\ instances = [i \in Insts |-> AbsentInstance]
  /\ next_inst = 1
  /\ started = 0
  /\ environ = Environ
  /\ plugin_permissions = _load_permission_config(NoOverrides, environ)
  /\ task = [t \in Tasks |-> IdleTask]
  /\ plugin_directories = <<>>
  /\ sec = NoCall
  /\ inspected = NoInspection
  /\ validated_directories = PluginDiscovery(Missing)
  /\ disc = NoDiscovery
  /\ executed = {}

\* The lifecycle operations.
Next ==
  \/ \E t \in Tasks, path \in Paths : StartLoadFromPath(t, path)
  \/ \E t \in Tasks : StartInitializePlugins(t)
  \/ \E t \in Tasks, name \in Names : StartUnload(t, name)
  \/ \E t \in Tasks, name \in Names : StartReload(t, name)
  \/ \E t \in Tasks : StartShutdownAll(t)
  \/ \E t \in Tasks : InitializeReturns(t)
  \/ \E t \in Tasks : InitializeRaises(t)
  \/ \E t \in Tasks : CleanupReturns(t)
  \/ \E t \in Tasks : CleanupRaises(t)

Spec == Init /\ [][Next]_vars

\* The event loop resumes a coroutine whose awaited initialize() or
\* cleanup() has returned or raised, and every such call does one of the
\* two in the end.
Fairness ==
  \A t \in Tasks :
    /\ WF_vars(InitializeReturns(t) \/ InitializeRaises(t))
    /\ WF_vars(CleanupReturns(t) \/ CleanupRaises(t))

SpecLive == Init /\ [][Next]_vars /\ Fairness

\* The lifecycle operations, with the overrides changing meanwhile.
NextPerm ==
  \/ Next
  \/ \E name \in OverrideNames, perm \in OverridePerms : grant_permission(name, perm)
  \/ \E name \in OverrideNames, perm \in OverridePerms : revoke_permission(name, perm)

SpecPerm == Init /\ [][NextPerm]_vars

(***************************************************************************)
(* The lifecycle operations with status inspections between their          *)
(* segments: the inspections are plain calls, made while coroutines are    *)
(* suspended in initialize() or cleanup().                                 *)
(***************************************************************************)
\* registry.get_plugin_status(plugin_name)
GetPluginStatus(plugin_name) ==
  /\ inspected' = [NoInspection EXCEPT
                     !.call = "get_plugin_status", !.arg = plugin_name,
                     !.status = get_plugin_status(Registry, plugin_name)]
  /\ UNCHANGED <<plugins, plugin_info, tools, instances, next_inst, started,
                 plugin_permissions, task, plugin_directories, sec, environ,
                 validated_directories, disc, executed>>

\* registry.get_all_plugin_status()
GetAllPluginStatus ==
  /\ inspected' = [NoInspection EXCEPT
                     !.call = "get_all_plugin_status",
                     !.statuses = get_all_plugin_status(Registry)]
  /\ UNCHANGED <<plugins, plugin_info, tools, instances, next_inst, started,
                 plugin_permissions, task, plugin_directories, sec, environ,
                 validated_directories, disc, executed>>

NextStatus ==
  \/ Next
  \/ \E name \in Names : GetPluginStatus(name)
  \/ GetAllPluginStatus

SpecStatus == Init /\ [][NextStatus]_vars

(***************************************************************************)
(* PluginSecurity called directly: validate_plugin on any location under   *)
(* any configuration, permission resolution for any name, and the          *)
(* overrides granted and revoked.                                          *)
(***************************************************************************)
\* The names and flags PluginSecurity is called with.
SecNames == {"alpha", "Alpha", "beta"}
SecPerms == {"write_files", "system_info"}

\* security.validate_plugin(plugin_path)
ValidatePlugin(path) ==
  /\ sec' = [NoCall EXCEPT !.call = "validate_plugin", !.arg = path,
                           !.result = validate_plugin(path)]
  /\ UNCHANGED <<plugins, plugin_info, tools, instances, next_inst, started,
                 plugin_permissions, task, plugin_directories, environ,
                 inspected, validated_directories, disc, executed>>

\* security.get_plugin_permissions(plugin_name)
GetPluginPermissions(plugin_name) ==
  /\ sec' = [NoCall EXCEPT
               !.call = "get_plugin_permissions", !.arg = plugin_name,
               !.permissions =
                  get_plugin_permissions(plugin_permissions, plugin_name)]
  /\ UNCHANGED <<plugins, plugin_info, tools, instances, next_inst, started,
                 plugin_permissions, task, plugin_directories, environ,
                 inspected, validated_directories, disc, executed>>

InitSec ==
  /\ plugins = <<>>
  /\ plugin_info = <<>>
  /\ tools = <<>>
  /\ instances = [i \in Insts |-> AbsentInstance]
  /\ next_inst = 1
  /\ started = 0
  /\ environ \in EnvironChoices
  /\ plugin_permissions = _load_permission_config(NoOverrides, environ)
  /\ task = [t \in Tasks |-> IdleTask]
  /\ plugin_directories \in ConfigChoices
  /\ sec = NoCall
  /\ inspected = NoInspection
  /\ validated_directories = PluginDiscovery(Missing)
  /\ disc = NoDiscovery
  /\ executed = {}

NextSec ==
  \/ \E path \in Locations : ValidatePlugin(path)
  \/ \E name \in SecNames : GetPluginPermissions(name)
  \/ \E name \in SecNames, perm \in SecPerms : grant_permission(name, perm)
  \/ \E name \in SecNames, perm \in SecPerms : revoke_permission(name, perm)

SpecSec == InitSec /\ [][NextSec]_vars

(***************************************************************************)
(* PluginDiscovery called directly: constructed with any of the directory  *)
(* lists, directories added, and the directories scanned.                  *)
(***************************************************************************)
\* discovery.add_plugin_directory(directory)
AddPluginDirectory(directory) ==
  LET call == add_plugin_directory(validated_directories, directory)
  IN /\ validated_directories' = call.validated
     /\ disc' = [NoDiscovery EXCEPT !.call = "add_plugin_directory",
                                    !.arg = directory,
                                    !.returned = call.returned]
     /\ UNCHANGED <<plugins, plugin_info, tools, instances, next_inst,
                    started, plugin_permissions, task, plugin_directories,
                    sec, environ, inspected, executed>>

\* discovery.discover_plugins()
DiscoverPlugins ==
  LET call == discover_plugins(validated_directories)
  IN /\ disc' = [NoDiscovery EXCEPT
                   !.call = "discover_plugins",
                   !.raised = call.raised,
                   !.discovered = IF call.raised THEN <<>> ELSE call.value[1].info,
                   !.log = IF call.raised THEN <<>> ELSE call.value[1].log]
     /\ UNCHANGED <<plugins, plugin_info, tools, instances, next_inst,
                    started, plugin_permissions, task, plugin_directories,
                    sec, environ, inspected, validated_directories, executed>>

InitDisc ==
  /\ plugins = <<>>
  /\ plugin_info = <<>>
  /\ tools = <<>>
  /\ instances = [i \in Insts |-> AbsentInstance]
  /\ next_inst = 1
  /\ started = 0
  /\ environ = Environ
  /\ plugin_permissions = _load_permission_config(NoOverrides, environ)
  /\ task = [t \in Tasks |-> IdleTask]
  /\ plugin_directories = <<>>
  /\ sec = NoCall
  /\ inspected = NoInspection
  /\ validated_directories \in {PluginDiscovery(given) : given \in ConstructorChoices}
  /\ disc = NoDiscovery
  /\ executed = {}

NextDisc ==
  \/ \E directory \in DirectoryArgs : AddPluginDirectory(directory)
  \/ DiscoverPlugins

SpecDisc == InitDisc /\ [][NextDisc]_vars

(***************************************************************************)
(* Observations used by the properties.                                    *)
(***************************************************************************)
\* Task t has just returned.
Done(t) == task[t].pc = "done"

\* Instance i is a value of the live map / of the host registry.
InLive(i) == \E k \in DOMAIN plugins : plugins[k][2] = i
Registered(i) == \E k \in DOMAIN tools : tools[k][2] = i

Constructed == {i \in Insts : instances[i].status # "absent"}

\* In this step task t is created and runs its first segment.
Starts(t) == Free(task[t]) /\ task'[t].op # "none"

\* An operation on the name is in flight.
InFlight(name) ==
  \E i \in Constructed :
    instances[i].name = name /\ instances[i].status \in {LOADING, UNLOADING}

SingleLoadOps == {"load_plugin_from_path", "reload_plugin"}

(***************************************************************************)
(* PluginRegistry._get_plugin_config called for a plugin name under any    *)
(* environment made of entries of the two naming conventions.              *)
(***************************************************************************)
\* The plugin names the configuration is collected for.
ConfNames == {"alpha", "alpha_extra", "beta", "security"}

\* The entries os.environ may hold, in their order.
ConfEntries ==
  <<(<<(<<"PLUGIN", "ALPHA", "TIMEOUT">>), "30">>),
    (<<(<<"PLUGIN", "BETA", "MODE">>), "fast">>),
    (<<(<<"PLUGIN", "ALPHA", "EXTRA", "KEY">>), "1">>),
    (<<(<<"PLUGIN", "SECURITY", "ALPHA", "WRITE", "FILES">>), "true">>),
    (<<(<<"PLUGIN", "SECURITY", "MODE">>), "fast">>)>>

\* os.environ with any of these entries present.
ConfEnvironChoices ==
  {SelectSeq(ConfEntries, LAMBDA e : e \in present) :
     present \in SUBSET {ConfEntries[k] : k \in DOMAIN ConfEntries}}

\* registry._get_plugin_config(plugin_name)
GetPluginConfig(plugin_name) ==
  /\ inspected' = [NoInspection EXCEPT
                     !.call = "_get_plugin_config", !.arg = plugin_name,
                     !.configuration = _get_plugin_config(plugin_name)]
  /\ UNCHANGED <<plugins, plugin_info, tools, instances, next_inst, started,
                 plugin_permissions, task, plugin_directories, sec, environ,
                 validated_directories, disc, executed>>

InitConf ==
  /\ plugins = <<>>
  /\ plugin_info = <<>>
  /\ tools = <<>>
  /\ instances = [i \in Insts |-> AbsentInstance]
  /\ next_inst = 1
  /\ started = 0
  /\ environ \in ConfEnvironChoices
  /\ plugin_permissions = _load_permission_config(NoOverrides, environ)
  /\ task = [t \in Tasks |-> IdleTask]
  /\ plugin_directories = <<>>
  /\ sec = NoCall
  /\ inspected = NoInspection
  /\ validated_directories = PluginDiscovery(Missing)
  /\ disc = NoDiscovery
  /\ executed = {}

NextConf == \E name \in ConfNames : GetPluginConfig(name)

SpecConf == InitConf /\ [][NextConf]_vars

(***************************************************************************)
(* ToolRegistry.reload_tool, a plain function, called between the segments *)
(* of the lifecycle coroutines or from outside the event loop.  The tool   *)
(* registry holds the plugins only (_tool_modules is empty) and its plugin *)
(* registry is set.                                                        *)
(***************************************************************************)
\* What reload_tool(name) returns and whether it leaves a task behind.
\* For a plugin it calls asyncio.create_task(reload_plugin(name)) and then
\* result() of the new task: with a running loop the task is scheduled and
\* result() raises InvalidStateError, without one create_task raises
\* RuntimeError; both are caught and answered with False.  A tool without
\* plugin_path has no entry in _tool_modules.
reload_tool(R, name, loop_running) ==
  IF ~Has(R.tools, name) THEN [result |-> FALSE, create |-> FALSE]
  ELSE
    LET tool == R.instances[Get(R.tools, name)]
    IN IF tool.plugin_path # ""
       THEN [result |-> FALSE, create |-> loop_running]
       ELSE [result |-> FALSE, create |-> FALSE]

\* tool_registry.reload_tool(name); t is the task it creates, if any.
ReloadTool(t, name, loop_running) ==
  LET out == reload_tool(Registry, name, loop_running)
  IN /\ IF out.create THEN CanStart(t) /\ Room(1) ELSE t = 1
     /\ inspected' = [NoInspection EXCEPT
                        !.call = "reload_tool", !.arg = name,
                        !.result = out.result,
                        !.created = IF out.create THEN t ELSE 0]
     /\ task' = IF out.create
                THEN [Running EXCEPT
                        ![t] = [NewTask("reload_plugin") EXCEPT
                                  !.pc = "scheduled", !.name = name]]
                ELSE task
     /\ started' = IF out.create THEN started + 1 ELSE started
     /\ UNCHANGED <<plugins, plugin_info, tools, instances, next_inst,
                    plugin_permissions, plugin_directories, sec, environ,
                    validated_directories, disc, executed>>

\* The event loop starts the task reload_tool created: reload_plugin runs
\* up to its first await.
RunScheduled(t) ==
  /\ task[t].pc = "scheduled"
  /\ Commit(t, reload_plugin(Registry,
         NewTask("reload_plugin"), plugin_permissions, task[t].name))

NextTool ==
  \/ Next
  \/ \E t \in Tasks, name \in Names, loop_running \in BOOLEAN :
       ReloadTool(t, name, loop_running)
  \/ \E t \in Tasks : RunScheduled(t)

SpecTool == Init /\ [][NextTool]_vars

(***************************************************************************)
(* C1: at every observable point a plugin instance is in the host tool     *)
(* registry if and only if its status is ACTIVE.                           *)
(***************************************************************************)
C1_RegisteredIffActive ==
  \A i \in Constructed : Registered(i) <=> instances[i].status = ACTIVE

(***************************************************************************)
(* C2: no entity of the live map has status LOADING or LOADED; an instance  *)
(* whose load returned failure is never in the live map; and in the state  *)
(* a load returns in (a single load, or one candidate of a batch), the     *)
(* instance it created is in the live map with status ACTIVE (success) or  *)
(* is not in the live map (failure).                                       *)
(***************************************************************************)
C2_LoadLeavesActiveOrNothing ==
  /\ [](\A k \in DOMAIN plugins :
          instances[plugins[k][2]].status
             \notin {"absent", DISCOVERED, LOADING, LOADED})
  /\ [](\A i \in Constructed :
          instances[i].load_result \in {"none", "raised"} => ~InLive(i))
  /\ [](\A t \in Tasks :
          Done(t) /\ task[t].op \in SingleLoadOps /\ task[t].inst # NoInst =>
            \/ /\ task[t].load_out = "plugin"
               /\ InLive(task[t].inst)
               /\ instances[task[t].inst].status = ACTIVE
            \/ /\ task[t].load_out # "plugin"
               /\ ~InLive(task[t].inst))
  /\ [][\A i \in Insts :
         instances[i].load_result = "" /\ instances'[i].load_result # "" =>
           \/ /\ instances'[i].load_result = "plugin"
              /\ Has(plugins', instances'[i].name)
              /\ Get(plugins', instances'[i].name) = i
              /\ instances'[i].status = ACTIVE
           \/ /\ instances'[i].load_result # "plugin"
              /\ \A k \in DOMAIN plugins' : plugins'[k][2] # i]_vars

C2_Witness ==
  \E t \in Tasks :
    /\ Done(t) /\ task[t].op = "load_plugin_from_path"
    /\ task[t].load_out = "raised"
    /\ task[t].inst # NoInst
    /\ instances[task[t].inst].status = LOADED
    /\ ~InLive(task[t].inst)

(***************************************************************************)
(* C3: the live map and the host registry hold at most one entity per      *)
(* name, and among the loads of one name whose initialize() returned, with *)
(* no unload of that name, exactly one succeeded; every other one reported *)
(* failure.                                                                *)
(***************************************************************************)
UniqueKeys(d) == \A a, b \in DOMAIN d : d[a][1] = d[b][1] => a = b

NeverCleaned(name) ==
  \A i \in Constructed : instances[i].name = name => instances[i].cleanup_calls = 0

Initialized(name) ==
  {i \in Constructed :
     instances[i].name = name /\ instances[i].load_result \in {"plugin", "raised"}}

C3_ExactlyOneLoadWins ==
  /\ UniqueKeys(plugins) /\ UniqueKeys(tools)
  /\ \A name \in Names :
        NeverCleaned(name) /\ Initialized(name) # {} =>
          Cardinality({i \in Initialized(name) :
                         instances[i].load_result = "plugin"}) = 1
  /\ \A t \in Tasks :
        Done(t) /\ task[t].op = "load_plugin_from_path" =>
          (task[t].result.success <=> task[t].load_out = "plugin")

\* The instance constructed first lost the race: the two loads overlapped.
C3_Witness ==
  \E i, j \in Constructed :
    /\ i < j
    /\ instances[i].name = instances[j].name
    /\ NeverCleaned(instances[i].name)
    /\ instances[i].load_result = "raised"
    /\ instances[j].load_result = "plugin"
    /\ \E t \in Tasks : Done(t) /\ task[t].inst = i /\ ~task[t].result.success

(***************************************************************************)
(* C4: an operation started on a name while another operation on that name *)
(* is in flight (an instance of the name is LOADING or UNLOADING) returns  *)
(* failure at once and calls neither initialize() nor cleanup().           *)
(***************************************************************************)
C4_FailFast ==
  [][\A t \in Tasks :
       /\ Starts(t)
       /\ task'[t].op \in {"load_plugin_from_path", "unload_plugin", "reload_plugin"}
       /\ InFlight(task'[t].name)
       => /\ task'[t].pc = "done"
          /\ ~task'[t].result.success
          /\ \A i \in Insts :
                /\ instances'[i].initialize_calls = instances[i].initialize_calls
                /\ instances'[i].cleanup_calls = instances[i].cleanup_calls]_vars

(***************************************************************************)
(* C5: no plugin object is ever constructed from, and no descriptor ever   *)
(* stored for, a location that security validation rejects; loading such a *)
(* path returns failure and changes neither the live map, the host         *)
(* registry nor any instance.                                              *)
(***************************************************************************)
\* Directory dir is the resolved path or one of its ancestors.
Contains(dir, resolved) ==
  Len(dir) <= Len(resolved) /\ SubSeq(resolved, 1, Len(dir)) = dir

\* The resolved location is an allowed directory or lies inside one.
Inside(path) ==
  \E k \in DOMAIN (plugin_directories \o default_dirs) :
    Contains((plugin_directories \o default_dirs)[k], PathFacts[path].resolved)

\* The location is one Security turns down: missing, outside every allowed
\* directory, or writable by others.
RejectedLocation(path) ==
  \/ ~PathFacts[path].exists
  \/ ~Inside(path)
  \/ PathFacts[path].world_writable

C5_RejectedLeavesNoTrace ==
  /\ [](\A i \in Constructed : ~RejectedLocation(instances[i].plugin_path))
  /\ [](\A k \in DOMAIN plugin_info : ~RejectedLocation(plugin_info[k][2].path))
  /\ [][\A t \in Tasks :
         /\ Starts(t)
         /\ task'[t].op = "load_plugin_from_path"
         /\ RejectedLocation(task'[t].path)
         => /\ UNCHANGED <<plugins, plugin_info, tools, instances>>
            /\ task'[t].pc = "done"
            /\ ~task'[t].result.success
            /\ task'[t].inst = NoInst]_vars

\* A load from outside the allowed directories returned failure.
C5_Witness ==
  \E t \in Tasks :
    /\ Done(t) /\ task[t].op = "load_plugin_from_path"
    /\ ~Inside(task[t].path)
    /\ task[t].result.error = "Plugin failed security validation"
    /\ task[t].inst = NoInst

(***************************************************************************)
(* C6: when a load that constructed its instance returns failure, the      *)
(* instance has status ERROR and is in neither the live map nor the host   *)
(* registry.                                                               *)
(***************************************************************************)
C6_FailedLoadEndsInError ==
  \A t \in Tasks :
    /\ Done(t) /\ task[t].op \in SingleLoadOps
    /\ task[t].inst # NoInst /\ task[t].load_out # "plugin"
    => /\ instances[task[t].inst].status = ERROR
       /\ ~InLive(task[t].inst)
       /\ ~Registered(task[t].inst)

(***************************************************************************)
(* C7: a load that starts, or whose initialize() returns, while its name   *)
(* is in the live map does not succeed, and leaves the live map, the       *)
(* stored descriptors, the host registry and every live instance (status,  *)
(* permissions, configuration) as they were.                               *)
(***************************************************************************)
LiveUnaffected ==
  /\ UNCHANGED <<plugins, plugin_info, tools>>
  /\ \A k \in DOMAIN plugins : instances'[plugins[k][2]] = instances[plugins[k][2]]

C7_DuplicateNameLeavesFirst ==
  [][\A t \in Tasks :
       /\ (task[t].pc = "initialize" /\ task'[t] # task[t]
              /\ Has(plugins, task[t].info.name))
          => (/\ LiveUnaffected
              /\ instances'[task[t].inst].load_result \in {"none", "raised"}
              /\ (task'[t].pc = "done" => ~task'[t].result.success))
       /\ (Starts(t) /\ task'[t].op = "load_plugin_from_path"
              /\ Has(plugins, task'[t].name))
          => LiveUnaffected]_vars

\* A second descriptor of a live name, loaded under other overrides, failed.
C7_Witness ==
  \E t \in Tasks :
    /\ Done(t) /\ task[t].op = "load_plugin_from_path"
    /\ task[t].load_out = "raised"
    /\ task[t].inst # NoInst
    /\ Has(plugins, task[t].name)
    /\ Get(plugin_info, task[t].name) # task[t].info
    /\ instances[Get(plugins, task[t].name)].status = ACTIVE
    /\ instances[Get(plugins, task[t].name)].permissions
         # instances[task[t].inst].permissions

(***************************************************************************)
(* C8: the entity an unload drops has final status UNLOADED, whether or    *)
(* not cleanup() raised.                                                   *)
(***************************************************************************)
C8_DroppedIsUnloaded ==
  \A t \in Tasks :
    Done(t) /\ task[t].op = "unload_plugin" /\ task[t].unload_out = "success"
    => instances[task[t].victim].status = UNLOADED

(***************************************************************************)
(* C9: when cleanup() raises during an unload, the unload goes on: after   *)
(* that step the name is in neither the host registry, the live map nor    *)
(* the stored descriptors.                                                 *)
(***************************************************************************)
C9_CleanupFailureDoesNotBlock ==
  [][\A t \in Tasks :
       /\ task[t].pc = "cleanup" /\ task'[t] # task[t]
       /\ task'[t].cleanup_result = "failed"
       => /\ ~Has(plugins', task[t].name)
          /\ ~Has(tools', task[t].name)
          /\ ~Has(plugin_info', task[t].name)
          /\ instances'[task[t].victim].status = ERROR]_vars

C9_Witness ==
  \E t \in Tasks :
    /\ Done(t) /\ task[t].op = "unload_plugin"
    /\ task[t].cleanup_result = "failed"
    /\ task[t].result.success
    /\ ~Has(plugins, task[t].name) /\ ~Has(tools, task[t].name)

(***************************************************************************)
(* C10: a reload whose unload step did not succeed (the name was not live, *)
(* or the unload failed) returns failure naming that, without loading: it  *)
(* constructs no instance and calls no initialize().                       *)
(***************************************************************************)
C10_ReloadAbortsOnUnloadFailure ==
  \A t \in Tasks :
    Done(t) /\ task[t].op = "reload_plugin" /\ task[t].unload_out # "success"
    => /\ ~task[t].result.success
       /\ task[t].result.error \in {"not found", "Failed to unload plugin"}
       /\ task[t].unload_out = "" <=> task[t].result.error = "not found"
       /\ task[t].inst = NoInst
       /\ task[t].load_out = ""

\* The unload step failed: another unload removed the plugin meanwhile.
C10_Witness ==
  \E t \in Tasks :
    /\ Done(t) /\ task[t].op = "reload_plugin"
    /\ task[t].unload_out = "error"
    /\ task[t].victim # NoInst
    /\ ~task[t].result.success
(***************************************************************************)
(* C11: an object is constructed with the permissions the default matrix   *)
(* and the overrides in force at that load resolve to, and keeps them; a   *)
(* load of a name that was loaded and unloaded before, and a successful    *)
(* reload, end with a new instance, distinct from the earlier ones, in the *)
(* live map under the name with status ACTIVE.                             *)
(***************************************************************************)
\* The other instances of the name of instance i.
EarlierOf(i) ==
  {j \in Constructed : j # i /\ instances[j].name = instances[i].name}

C11_SecondLoadIsFresh ==
  /\ [][\A i \in Insts :
         instances[i].status = "absent" /\ instances'[i].status # "absent" =>
           instances'[i].permissions =
             [p \in PluginPermission |->
                IF p \in DOMAIN plugin_permissions[lower[instances'[i].name]]
                THEN plugin_permissions[lower[instances'[i].name]][p]
                ELSE default_permissions[p]]]_vars
  /\ [][\A i \in Insts :
         instances[i].status # "absent" =>
           instances'[i].permissions = instances[i].permissions]_vars
  /\ [](\A t \in Tasks :
          Done(t) /\ task[t].op \in SingleLoadOps /\ task[t].result.success =>
            /\ Has(plugins, task[t].name)
            /\ Get(plugins, task[t].name) = task[t].inst
            /\ instances[task[t].inst].status = ACTIVE
            /\ task[t].inst # task[t].victim
            /\ \A j \in EarlierOf(task[t].inst) : ~InLive(j) /\ ~Registered(j))

\* A reload under an override granted after the first load: the new instance
\* has the flag, the one it replaces did not.
C11_Witness ==
  \E t \in Tasks :
    /\ Done(t) /\ task[t].op = "reload_plugin" /\ task[t].result.success
    /\ instances[task[t].victim].status \in {UNLOADED, ERROR}
    /\ ~instances[task[t].victim].permissions["write_files"]
    /\ instances[task[t].inst].permissions["write_files"]
    /\ instances[task[t].inst].status = ACTIVE

(***************************************************************************)
(* C12: when shutdown_all_plugins returns, the live map is empty.          *)
(***************************************************************************)
C12_ShutdownLeavesMapEmpty ==
  \A t \in Tasks :
    Done(t) /\ task[t].op = "shutdown_all_plugins" => plugins = <<>>

(***************************************************************************)
(* C13: shutdown_all_plugins takes the live plugins in the reverse of the  *)
(* order of their registration with the host registry; each time it        *)
(* resumes it goes on with the next name of that order, passing over the   *)
(* names whose unload fails at once; and it returns only when every name   *)
(* was tried, each counted as a success or as a failure.                   *)
(***************************************************************************)
\* Task t, a shutdown_all_plugins, ran a segment in this step.
ShutdownSteps(t) ==
  /\ task'[t].op = "shutdown_all_plugins"
  /\ task'[t] # task[t]
  /\ Starts(t) \/ task[t].pc = "cleanup"

\* After the step task t has gone through the names of order up to the k-th,
\* which it is unloading, or through all of them.
FollowsOrder(t, order) ==
  \E k \in 0..Len(order) :
    /\ \A n \in 1..k : ~Has(plugins', order[n])
    /\ \/ /\ k = Len(order)
          /\ task'[t].pc = "done"
          /\ task'[t].todo_names = <<>>
       \/ /\ k < Len(order)
          /\ task'[t].pc = "cleanup"
          /\ task'[t].name = order[k + 1]
          /\ task'[t].victim = Get(plugins', order[k + 1])
          /\ task'[t].todo_names = SubSeq(order, k + 2, Len(order))

C13_ShutdownInReverseOrder ==
  /\ [](KeyList(plugins) = KeyList(tools))
  /\ [][\A t \in Tasks :
         ShutdownSteps(t) =>
           IF Starts(t)
           THEN /\ FollowsOrder(t, Reversed(KeyList(tools)))
                /\ tools # <<>> => task'[t].name = tools[Len(tools)][1]
           ELSE FollowsOrder(t, task[t].todo_names)]_vars
  /\ [](\A t \in Tasks :
          Done(t) /\ task[t].op = "shutdown_all_plugins" =>
            /\ task[t].todo_names = <<>>
            /\ task[t].result.count_ok + task[t].result.count_failed
                 = task[t].result.total)

\* Two plugins were live; the unload of the one registered last failed and
\* the one registered first was unloaded after it.
C13_Witness ==
  \E t \in Tasks :
    /\ Done(t) /\ task[t].op = "shutdown_all_plugins"
    /\ task[t].result.total = 2
    /\ task[t].result.errors = <<"beta">>
    /\ task[t].result.count_ok = 1
    /\ task[t].name = "alpha"
    /\ instances[task[t].victim].status = UNLOADED

(***************************************************************************)
(* C14: when the cleanup of a plugin K raises during shutdown_all_plugins, *)
(* K is not counted as a success and K's failure is in the error list; the *)
(* summary counts every plugin once, as a success or as a failure.         *)
(***************************************************************************)
C14_FailedCleanupIsReported ==
  /\ [][\A t \in Tasks :
         /\ task[t].op = "shutdown_all_plugins" /\ task[t].pc = "cleanup"
         /\ task'[t] # task[t]
         /\ task'[t].cleanup_result = "failed"
         => /\ task'[t].result.count_ok = task[t].result.count_ok
            /\ task'[t].result.count_failed > task[t].result.count_failed
            /\ \E k \in DOMAIN task'[t].result.errors :
                  task'[t].result.errors[k] = task[t].name]_vars
  /\ [](\A t \in Tasks :
          Done(t) /\ task[t].op = "shutdown_all_plugins" =>
            task[t].result.count_ok + task[t].result.count_failed
              = task[t].result.total)

(***************************************************************************)
(* C15: however shutdown_all_plugins and unload_plugin invocations follow  *)
(* each other or overlap, cleanup() is invoked at most once on an entity.  *)
(***************************************************************************)
C15_NoDoubleUnload ==
  (\A u \in Tasks :
     task[u].op \in {"none", "shutdown_all_plugins", "unload_plugin"})
  => \A t \in Tasks :
       task[t].victim # NoInst => instances[task[t].victim].cleanup_calls <= 1

(***************************************************************************)
(* C16: every lifecycle operation returns a result; a single operation     *)
(* that failed gives a reason, and a batch operation gives a reason for    *)
(* each failure it counts.                                                 *)
(***************************************************************************)
C16_EveryFailureHasAReason ==
  \A t \in Tasks :
    Done(t) =>
      /\ task[t].result.returned
      /\ task[t].op \in {"load_plugin_from_path", "unload_plugin", "reload_plugin"}
           => (task[t].result.success \/ task[t].result.error # "")
      /\ task[t].op \in {"initialize_plugins", "shutdown_all_plugins"}
           => Len(task[t].result.errors) = task[t].result.count_failed

(***************************************************************************)
(* Observations of the direct calls of PluginSecurity.                     *)
(***************************************************************************)
\* The last call was validate_plugin and it accepted / rejected.
Accepted == sec.call = "validate_plugin" /\ sec.result
Rejected == sec.call = "validate_plugin" /\ ~sec.result

\* What the last call of validate_plugin was given.
Probed == PathFacts[sec.arg]

(***************************************************************************)
(* C17: validate_plugin accepts a location only if its resolved path is an *)
(* allowed directory or lies inside one, component by component.           *)
(***************************************************************************)
C17_AcceptedOnlyInside == Accepted => Inside(sec.arg)

(***************************************************************************)
(* C18: validate_plugin accepts a location only if it lies under a         *)
(* configured directory; with no directory configured it rejects every     *)
(* location.                                                               *)
(***************************************************************************)
C18_OnlyConfiguredDirectories ==
  Accepted =>
    \E k \in DOMAIN plugin_directories :
      Contains(plugin_directories[k], Probed.resolved)

(***************************************************************************)
(* C19, as claimed: validate_plugin rejects every location that is not a   *)
(* regular file, every location with the world-writable bit, and every     *)
(* location on which a check raises.                                       *)
(***************************************************************************)
C19_RejectsNonRegularFiles ==
  sec.call = "validate_plugin" =>
    ((\/ ~Probed.is_file
      \/ Probed.world_writable
      \/ Probed.stat_raises
      \/ ~Probed.path_valid) => ~sec.result)

(***************************************************************************)
(* C19, amended: validate_plugin rejects every location that does not      *)
(* exist or is not readable, every location with the world-writable bit,   *)
(* and every location on which a check raises; it accepts only what passes *)
(* all of these, a file or a directory.                                    *)
(***************************************************************************)
C19_RejectsInsecureLocations ==
  sec.call = "validate_plugin" =>
    /\ (\/ ~Probed.exists
        \/ ~Probed.readable
        \/ Probed.world_writable
        \/ Probed.stat_raises
        \/ ~Probed.path_valid) => ~sec.result
    /\ ~Probed.is_file /\ Probed.exists /\ Probed.readable
         /\ ~Probed.world_writable /\ ~Probed.stat_raises /\ Probed.path_valid
         /\ Inside(sec.arg)
         => sec.result

\* A world-writable file inside an allowed directory was rejected.
C19_Witness ==
  /\ Rejected
  /\ Probed.world_writable /\ Probed.exists /\ Probed.readable
  /\ ~Probed.stat_raises /\ Probed.path_valid
  /\ Inside(sec.arg)

(***************************************************************************)
(* C20, as claimed: granting or revoking one flag f for plugin P changes   *)
(* the resolved value of (P, f) at most, and no flag of any other name.    *)
(***************************************************************************)
Resolved(overrides, name) ==
  [p \in PluginPermission |->
     IF p \in DOMAIN overrides[lower[name]]
     THEN overrides[lower[name]][p]
     ELSE default_permissions[p]]

C20_OverrideChangesOneFlag ==
  [][plugin_permissions' # plugin_permissions =>
       \E P \in SecNames, f \in PluginPermission :
         \A Q \in SecNames, g \in PluginPermission :
           (Q # P \/ g # f) =>
             get_plugin_permissions(plugin_permissions', Q)[g]
               = get_plugin_permissions(plugin_permissions, Q)[g]]_vars

(***************************************************************************)
(* C20, amended: resolution leaves the override table as it was and gives  *)
(* the defaults overlaid with the overrides of the name in lower case;     *)
(* granting or revoking one flag f for plugin P changes the resolved value *)
(* of f for the names that equal P up to letter case, and nothing else.    *)
(***************************************************************************)
\* This step is a direct call of get_plugin_permissions.
ResolveStep ==
  /\ sec'.call = "get_plugin_permissions"
  /\ \/ sec.call # "get_plugin_permissions"
     \/ sec'.arg # sec.arg
     \/ sec'.permissions # sec.permissions

C20_OverrideChangesOneFlagOfOneName ==
  /\ [][ResolveStep =>
          /\ UNCHANGED plugin_permissions
          /\ sec'.permissions = Resolved(plugin_permissions, sec'.arg)]_vars
  /\ [][plugin_permissions' # plugin_permissions =>
          \E P \in SecNames, f \in PluginPermission :
            /\ \A Q \in SecNames, g \in PluginPermission :
                 (lower[Q] # lower[P] \/ g # f) =>
                   get_plugin_permissions(plugin_permissions', Q)[g]
                     = get_plugin_permissions(plugin_permissions, Q)[g]
            /\ \A Q \in SecNames :
                 lower[Q] = lower[P] =>
                   get_plugin_permissions(plugin_permissions', Q)[f]
                     = get_plugin_permissions(plugin_permissions', P)[f]]_vars

\* With system_info revoked and write_files granted for "alpha", the flags
\* resolved for "Alpha" are those two changed and the rest at their defaults,
\* and "beta" resolves to the defaults.
C20_Witness ==
  /\ sec.call = "get_plugin_permissions" /\ sec.arg = "Alpha"
  /\ DOMAIN plugin_permissions["alpha"] = {"write_files", "system_info"}
  /\ sec.permissions["write_files"] /\ ~sec.permissions["system_info"]
  /\ \A g \in PluginPermission \ {"write_files", "system_info"} :
        sec.permissions[g] = default_permissions[g]
  /\ get_plugin_permissions(plugin_permissions, "beta") = default_permissions

(***************************************************************************)
(* C21: the resolved value of a flag is the plugin's override when there   *)
(* is one and the default otherwise; the defaults grant system_info,       *)
(* tool_composition and config_read only; the resolved set has the 13      *)
(* flags as its keys.  A plugin's overrides are those stored under its     *)
(* name in lower case.                                                     *)
(***************************************************************************)
C21_OverrideElseDefault ==
  /\ [](/\ Cardinality(PluginPermission) = 13
        /\ {p \in PluginPermission : default_permissions[p]}
             = {"system_info", "tool_composition", "config_read"})
  /\ [][ResolveStep =>
          /\ DOMAIN sec'.permissions = PluginPermission
          /\ \A f \in PluginPermission :
               sec'.permissions[f] =
                 IF f \in DOMAIN plugin_permissions[lower[sec'.arg]]
                 THEN plugin_permissions[lower[sec'.arg]][f]
                 ELSE default_permissions[f]]_vars

\* system_info, granted by default, was revoked for "alpha" and write_files,
\* denied by default, was not overridden: the first resolves to denied, the
\* second to its default.
C21_Witness ==
  /\ sec.call = "get_plugin_permissions" /\ sec.arg = "alpha"
  /\ DOMAIN plugin_permissions["alpha"] = {"system_info"}
  /\ ~plugin_permissions["alpha"]["system_info"]
  /\ ~sec.permissions["system_info"]
  /\ ~sec.permissions["write_files"]
  /\ sec.permissions["tool_composition"]

(***************************************************************************)
(* C22: after construction, an entry PLUGIN_SECURITY_<PLUGIN>_<PERMISSION> *)
(* of the environment with a value of true, 1, yes or on makes the         *)
(* permission granted for the plugin and any other value makes it denied;  *)
(* without such an entry every plugin resolves to the defaults.            *)
(***************************************************************************)
\* The key the naming convention gives to a plugin and one of its flags.
ConfiguredKey(plugin_name, permission) ==
  <<"PLUGIN", "SECURITY">> \o UpperTokens[plugin_name] \o PermTokens[permission]

\* Nothing was granted or revoked since construction.
AsConstructed == plugin_permissions = _load_permission_config(NoOverrides, environ)

C22_ConfiguredPermissionsApply ==
  AsConstructed =>
    \A n \in Names, p \in PluginPermission :
      LET entries == {k \in DOMAIN environ : environ[k][1] = ConfiguredKey(n, p)}
      IN /\ \A k \in entries :
              get_plugin_permissions(plugin_permissions, n)[p]
                = (lower[environ[k][2]] \in Truthy)
         /\ entries = {} =>
              get_plugin_permissions(plugin_permissions, n)[p]
                = default_permissions[p]

(***************************************************************************)
(* C23: when initialize() is invoked on an instance, the instance already  *)
(* has the permission set resolved for its name and the configuration      *)
(* collected from the PLUGIN_<NAME>_<KEY> entries of the environment.      *)
(***************************************************************************)
\* Task t suspends in initialize() of an instance in this step.
EntersInitialize(t) ==
  /\ task'[t].pc = "initialize"
  /\ task[t].pc # "initialize" \/ task'[t].inst # task[t].inst

C23_ConfiguredBeforeInitialize ==
  [][\A t \in Tasks :
       EntersInitialize(t) =>
         LET obj == instances'[task'[t].inst]
         IN /\ obj.initialize_calls = 1
            /\ obj.permissions = Resolved(plugin_permissions, obj.name)
            /\ obj.configuration = _get_plugin_config(obj.name)]_vars

\* initialize() of "alpha" is in flight on an instance that has write_files,
\* granted before the load, and the timeout of PLUGIN_ALPHA_TIMEOUT.
C23_Witness ==
  \E t \in Tasks :
    /\ task[t].pc = "initialize"
    /\ instances[task[t].inst].name = "alpha"
    /\ instances[task[t].inst].status = LOADING
    /\ instances[task[t].inst].permissions["write_files"]
    /\ instances[task[t].inst].configuration = {<<(<<"timeout">>), "30">>}

(***************************************************************************)
(* C24: a status inspection changes nothing in the live map, the host      *)
(* registry, the plugins or the coroutines; it returns, for a name of the  *)
(* live map, the status the plugin has at that moment, UNLOADING included, *)
(* and reports absence for any other name; it returns while loads and      *)
(* unloads are in flight.                                                  *)
(***************************************************************************)
\* This step is a status inspection.
InspectStep == inspected' # inspected

\* The status of the plugin the live map holds under the k-th name.
LiveStatus(k) == instances[plugins[k][2]].status

C24_InspectionIsReadOnly ==
  [][InspectStep =>
       /\ UNCHANGED <<plugins, plugin_info, tools, instances, next_inst, task>>
       /\ inspected'.call = "get_plugin_status" =>
            /\ inspected'.status.found = (\E k \in DOMAIN plugins :
                                            plugins[k][1] = inspected'.arg)
            /\ \A k \in DOMAIN plugins :
                 plugins[k][1] = inspected'.arg =>
                   /\ inspected'.status.status = LiveStatus(k)
                   /\ inspected'.status.name = inspected'.arg
       /\ inspected'.call = "get_all_plugin_status" =>
            /\ Len(inspected'.statuses) = Len(plugins)
            /\ \A k \in DOMAIN plugins :
                 /\ inspected'.statuses[k].name = plugins[k][1]
                 /\ inspected'.statuses[k].status = LiveStatus(k)]_vars

\* While an unload of "alpha" is suspended in cleanup(), an inspection of
\* "alpha" returned UNLOADING and the coroutine is still suspended.
C24_Witness ==
  /\ inspected.call = "get_plugin_status" /\ inspected.arg = "alpha"
  /\ inspected.status.found /\ inspected.status.status = UNLOADING
  /\ \E t \in Tasks : task[t].pc = "cleanup" /\ task[t].name = "alpha"
  /\ Has(plugins, "alpha")

(***************************************************************************)
(* Observations of the direct calls of PluginDiscovery.                    *)
(***************************************************************************)
\* The last call was discover_plugins.
Scanned == disc.call = "discover_plugins"

\* The directories of the list that iterdir() can read, by position.
Readable == {k \in DOMAIN validated_directories :
               Directories[validated_directories[k]].readable}

\* The children at position k of the list.
ChildrenAt(k) ==
  {Directories[validated_directories[k]].listing[i] :
     i \in DOMAIN Directories[validated_directories[k]].listing}

\* The children of the directories that can be read.
Children == UNION {ChildrenAt(k) : k \in Readable}

\* The module a child is loaded from, if it is a candidate: a .py file not
\* prefixed with "_", or a directory not prefixed with "." that holds
\* plugin.py or __init__.py.
CandidateModule(path) ==
  LET item == Items[path]
  IN IF item.is_file /\ item.suffix = ".py" /\ ~item.private
     THEN Some(item.module)
     ELSE IF item.is_dir /\ ~item.hidden
     THEN (IF item.plugin_py # Missing THEN item.plugin_py ELSE item.init_py)
     ELSE Missing

\* The module of a candidate loads and exports exactly one plugin type.
OneType(path) ==
  /\ CandidateModule(path) # Missing
  /\ CandidateModule(path)[1].source_valid
  /\ CandidateModule(path)[1].loads
  /\ Len(CandidateModule(path)[1].classes) = 1

\* A candidate with nothing wrong: an accepted path, one plugin type, and
\* no metadata file that cannot be parsed.
ValidCandidate(path) ==
  /\ Items[path].path_valid
  /\ OneType(path)
  /\ Items[path].metadata_file # "malformed"

\* The descriptors returned for a child, and whether an error was logged
\* for it.
DescriptorsOf(path) ==
  {j \in DOMAIN disc.discovered : disc.discovered[j].path = path}
Logged(path) == \E j \in DOMAIN disc.log : disc.log[j].path = path
LoggedDirectory(directory) ==
  \E j \in DOMAIN disc.log : disc.log[j].directory = directory

(***************************************************************************)
(* C25: discover_plugins returns a descriptor for every valid candidate of *)
(* the directories, those of an earlier directory before those of a later  *)
(* one, and only descriptors of candidates; failing candidates are left    *)
(* out.                                                                    *)
(***************************************************************************)
C25_DiscoversEveryValidCandidate ==
  Scanned =>
    /\ \A path \in Children : ValidCandidate(path) => DescriptorsOf(path) # {}
    /\ \A j \in DOMAIN disc.discovered :
         /\ disc.discovered[j].path \in Children
         /\ OneType(disc.discovered[j].path)
    /\ \A i, j \in DOMAIN disc.discovered :
         i < j =>
           \E a, b \in Readable :
             /\ a <= b
             /\ disc.discovered[i].path \in ChildrenAt(a)
             /\ disc.discovered[j].path \in ChildrenAt(b)

(***************************************************************************)
(* C26, as claimed: a directory candidate whose metadata file exists but   *)
(* cannot be parsed yields no descriptor and an error is logged for it.    *)
(***************************************************************************)
C26_MalformedMetadataDropsCandidate ==
  Scanned =>
    \A path \in Children :
      Items[path].is_dir /\ CandidateModule(path) # Missing
        /\ Items[path].metadata_file = "malformed"
      => DescriptorsOf(path) = {} /\ Logged(path)

(***************************************************************************)
(* C26, amended: a directory candidate whose metadata file exists but      *)
(* cannot be parsed is not dropped for that: the failure is logged, its    *)
(* metadata is what the plugin type declares, as when there is no metadata *)
(* file, and the scan continues.                                           *)
(***************************************************************************)
\* The one plugin type of a candidate.
TypeOf(path) == CandidateModule(path)[1].classes[1]

\* The metadata taken from the plugin type of a candidate.
DeclaredMetadata(path) ==
  IF TypeOf(path).metadata # Missing THEN TypeOf(path).metadata[1]
  ELSE [name |-> IF TypeOf(path).tool_name # Missing
                 THEN TypeOf(path).tool_name[1] ELSE Items[path].stem,
        version |-> IF TypeOf(path).version # Missing
                    THEN TypeOf(path).version[1] ELSE "1.0.0",
        description |-> IF strip[TypeOf(path).doc[1]] # ""
                        THEN strip[TypeOf(path).doc[1]] ELSE Items[path].stem,
        tags |-> {}]

\* The plugin type of a candidate declares metadata or has a docstring.
Describable(path) ==
  TypeOf(path).metadata # Missing \/ TypeOf(path).doc # Missing

C26_MalformedMetadataFallsBack ==
  Scanned =>
    /\ \A path \in Children :
         Items[path].is_dir /\ CandidateModule(path) # Missing
           /\ Items[path].metadata_file = "malformed"
           /\ Items[path].path_valid
         => /\ Logged(path)
            /\ OneType(path) /\ Describable(path) =>
                 /\ DescriptorsOf(path) # {}
                 /\ \A j \in DescriptorsOf(path) :
                      /\ disc.discovered[j].metadata = DeclaredMetadata(path)
                      /\ disc.discovered[j].name = DeclaredMetadata(path).name
    /\ \A path \in Children :
         ValidCandidate(path) /\ Describable(path) => DescriptorsOf(path) # {}

\* delta_pkg, whose plugin.json is malformed, was discovered under the name
\* its type declares, the failure was logged, and epsilon_pkg, scanned after
\* it, was discovered too.
C26_Witness ==
  /\ Scanned
  /\ \E i, j \in DOMAIN disc.discovered :
       /\ i < j
       /\ disc.discovered[i].path = "delta_pkg"
       /\ disc.discovered[i].name = "delta"
       /\ disc.discovered[i].metadata.version = "0.9"
       /\ disc.discovered[j].path = "epsilon_pkg"
  /\ Logged("delta_pkg")

(***************************************************************************)
(* C27: a candidate whose module exports no plugin type or several is      *)
(* left out with an error, none of its types is taken, and the siblings    *)
(* with nothing wrong of their own are discovered.                         *)
(***************************************************************************)
\* The module of a candidate loads and exports no plugin type or several.
NotOneType(path) ==
  /\ CandidateModule(path) # Missing
  /\ CandidateModule(path)[1].source_valid
  /\ CandidateModule(path)[1].loads
  /\ Len(CandidateModule(path)[1].classes) # 1

C27_AmbiguousOrMissingTypeRejected ==
  Scanned =>
    \A k \in Readable :
      \A path \in ChildrenAt(k) :
        NotOneType(path) /\ Items[path].path_valid =>
          /\ DescriptorsOf(path) = {}
          /\ \E j \in DOMAIN disc.log :
               /\ disc.log[j].path = path
               /\ disc.log[j].error \in {"No plugin class found",
                                         "Multiple plugin classes found"}
          /\ \A j \in DOMAIN disc.discovered,
                c \in DOMAIN CandidateModule(path)[1].classes :
               disc.discovered[j].class # CandidateModule(path)[1].classes[c].id
          /\ \A sibling \in ChildrenAt(k) :
               ValidCandidate(sibling) /\ Describable(sibling)
                 => DescriptorsOf(sibling) # {}

\* twins.py (two types) and empty.py (none) were left out with their
\* errors, and alpha.py and beta_pkg of the same directory were discovered.
C27_Witness ==
  /\ Scanned
  /\ DescriptorsOf("twins_py") = {} /\ DescriptorsOf("empty_py") = {}
  /\ Warning("twins_py", "Multiple plugin classes found")
       \in {disc.log[j] : j \in DOMAIN disc.log}
  /\ Warning("empty_py", "No plugin class found")
       \in {disc.log[j] : j \in DOMAIN disc.log}
  /\ DescriptorsOf("alpha_py") # {} /\ DescriptorsOf("beta_pkg") # {}

(***************************************************************************)
(* C28: the metadata of a descriptor of a directory candidate is that of   *)
(* its metadata file when the file is there and parses, whatever the type  *)
(* declares; without a metadata file it is what the type declares, the     *)
(* name falling back to the file or directory name and the version to      *)
(* 1.0.0.                                                                  *)
(***************************************************************************)
\* The metadata of a parsed metadata file.
FileMetadata(path) ==
  LET d == Items[path].metadata_dict
  IN [name |-> IF "name" \in DOMAIN d THEN d.name ELSE "",
      version |-> IF "version" \in DOMAIN d THEN d.version ELSE "1.0.0",
      description |-> IF "description" \in DOMAIN d THEN d.description ELSE "",
      tags |-> IF "tags" \in DOMAIN d THEN d.tags ELSE {}]

C28_MetadataFileSupersedes ==
  Scanned =>
    \A j \in DOMAIN disc.discovered :
      LET d == disc.discovered[j]
      IN /\ d.name = d.metadata.name
         /\ Items[d.path].metadata_file = "parsed" =>
              d.metadata = FileMetadata(d.path)
         /\ Items[d.path].metadata_file = "absent" =>
              /\ d.metadata = DeclaredMetadata(d.path)
              /\ TypeOf(d.path).metadata = Missing =>
                   /\ TypeOf(d.path).tool_name = Missing =>
                        d.name = Items[d.path].stem
                   /\ TypeOf(d.path).version = Missing =>
                        d.metadata.version = "1.0.0"

\* eta_pkg took name, version and tags from its plugin.json although its
\* type declares others; theta_pkg, without metadata file or declaration,
\* is named after its directory with version 1.0.0; omega.py has what its
\* type declares.
C28_Witness ==
  /\ Scanned
  /\ \E i, j, k \in DOMAIN disc.discovered :
       /\ disc.discovered[i].path = "eta_pkg"
       /\ disc.discovered[i].metadata =
            [name |-> "eta", version |-> "1.0.0", description |-> "Eta.",
             tags |-> {}]
       /\ disc.discovered[j].path = "theta_pkg"
       /\ disc.discovered[j].name = "theta_pkg"
       /\ disc.discovered[j].metadata.version = "1.0.0"
       /\ disc.discovered[k].path = "omega_py"
       /\ disc.discovered[k].name = "omega"
       /\ disc.discovered[k].metadata.version = "3.0"

(***************************************************************************)
(* C29, as claimed: when a directory of the list cannot be read,           *)
(* discover_plugins raises the error to its caller.                        *)
(***************************************************************************)
\* A directory of the list cannot be read.
SomeUnreadable == Readable # DOMAIN validated_directories

C29_UnreadableRootPropagates == Scanned /\ SomeUnreadable => disc.raised

(***************************************************************************)
(* C29, amended: when a directory of the list cannot be read, the error is *)
(* logged and absorbed: discover_plugins raises nothing and returns the    *)
(* descriptors of the other directories, those listed after it included.   *)
(***************************************************************************)
C29_UnreadableRootIsSkipped ==
  Scanned =>
    /\ ~disc.raised
    /\ \A k \in DOMAIN validated_directories :
         k \notin Readable => LoggedDirectory(validated_directories[k])
    /\ \A path \in Children :
         ValidCandidate(path) /\ Describable(path) => DescriptorsOf(path) # {}

\* /srv/locked, which cannot be read, is listed before /opt/ext: the scan
\* returned the plugins of /opt/ext and logged the error.
C29_Witness ==
  /\ Scanned /\ ~disc.raised
  /\ \E a, b \in DOMAIN validated_directories :
       /\ a < b
       /\ validated_directories[a] = srv_locked
       /\ validated_directories[b] = opt_ext
  /\ DescriptorsOf("omega_py") # {}
  /\ LoggedDirectory(srv_locked)

(***************************************************************************)
(* C30: add_plugin_directory of a directory already in the list returns    *)
(* True and leaves the list as it is; of a path that does not exist or is  *)
(* not a directory it returns False, raises nothing and leaves the list as *)
(* it is; otherwise the directory is appended.                             *)
(***************************************************************************)
\* This step is a call of add_plugin_directory.
AddStep ==
  /\ disc'.call = "add_plugin_directory"
  /\ disc' # disc \/ validated_directories' # validated_directories

\* The resolved directory is in the list.
Listed(path) ==
  \E k \in DOMAIN validated_directories : validated_directories[k] = path

Incomplete(path) == InfoAt[path].class = "incomplete"

C31_IncompleteTypeRejected ==
  /\ [](\A i \in Constructed : ~Incomplete(instances[i].plugin_path))
  /\ [](\A k \in DOMAIN plugin_info : plugin_info[k][2].class = "ok")
  /\ [](\A t \in Tasks :
          Done(t) /\ task[t].op = "load_plugin_from_path"
                  /\ Incomplete(task[t].path) =>
            /\ ~task[t].result.success
            /\ task[t].load_out = "raised"
            /\ task[t].inst = NoInst)
  /\ [][\A t \in Tasks :
          Starts(t) /\ task'[t].op = "load_plugin_from_path"
                    /\ Incomplete(task'[t].path) =>
            /\ Done(t)'
            /\ <<plugins, plugin_info, tools, instances, next_inst>>'
                 = <<plugins, plugin_info, tools, instances, next_inst>>]_vars

\* The load of the incomplete type was refused while a plugin of the same
\* name was live, and a batch load met the incomplete type as well.
C31_Witness ==
  /\ \E t \in Tasks :
       /\ Done(t) /\ task[t].op = "load_plugin_from_path"
       /\ task[t].path = "stub_py" /\ task[t].load_out = "raised"
  /\ Has(plugins, "beta")
  /\ \A i \in Constructed : instances[i].plugin_path # "stub_py"

(***************************************************************************)
(* C32: the statuses an instance is assigned only move forward: an         *)
(* instance starts as DISCOVERED, a load that succeeded assigned LOADING,  *)
(* LOADED and ACTIVE in that order, no LOADING, LOADED or ACTIVE is        *)
(* assigned after an UNLOADING, and the instance a load initializes is a   *)
(* new object, DISCOVERED and then LOADING, whatever was loaded under its  *)
(* name before.                                                            *)
(***************************************************************************)
Assigned(i) == instances[i].history

C32_StatusMovesForward ==
  /\ [](\A i \in Constructed :
          /\ Assigned(i)[1] = DISCOVERED
          /\ Assigned(i)[Len(Assigned(i))] = instances[i].status
          /\ \A a \in DOMAIN Assigned(i) : Assigned(i)[a] \in PluginStatus
          /\ instances[i].load_result = "plugin" =>
                SubSeq(Assigned(i), 1, 4) = <<DISCOVERED, LOADING, LOADED, ACTIVE>>
          /\ \A a, b \in DOMAIN Assigned(i) :
                a < b /\ Assigned(i)[a] = UNLOADING =>
                  Assigned(i)[b] \notin {DISCOVERED, LOADING, LOADED, ACTIVE})
  /\ [][\A t \in Tasks :
          EntersInitialize(t) =>
            /\ instances[task'[t].inst].status = "absent"
            /\ instances'[task'[t].inst].history = <<DISCOVERED, LOADING>>]_vars
  /\ [][\A i \in Insts :
          Len(instances[i].history) <= Len(instances'[i].history)
          /\ SubSeq(instances'[i].history, 1, Len(instances[i].history))
               = instances[i].history]_vars

\* A plugin was loaded, unloaded and loaded again under its name: the first
\* object is UNLOADED and the second one is ACTIVE.
C32_Witness ==
  \E i, j \in Constructed :
    /\ i < j /\ instances[i].name = instances[j].name
    /\ Assigned(i) = <<DISCOVERED, LOADING, LOADED, ACTIVE, UNLOADING, UNLOADED>>
    /\ Assigned(j) = <<DISCOVERED, LOADING, LOADED, ACTIVE>>
    /\ InLive(j)

(***************************************************************************)
(* C33: once the operation that created it has returned, every instance    *)
(* whose initialize() returned is the live entity of its name or has had   *)
(* cleanup() called on it.                                                 *)
(***************************************************************************)
\* The operation that called the load of instance i has returned.
CreatorReturned(i) ==
  /\ instances[i].load_result # ""
  /\ \A t \in Tasks : ~Free(task[t]) => task[t].op # "initialize_plugins"

C33_NoLeakOnFailure ==
  \A i \in Constructed :
    CreatorReturned(i) /\ instances[i].load_result \in {"plugin", "raised"} =>
      \/ /\ Has(plugins, instances[i].name)
         /\ Get(plugins, instances[i].name) = i
      \/ instances[i].cleanup_calls > 0

(***************************************************************************)
(* C34: on every load path the module of a candidate is executed only      *)
(* after security validation has accepted its location: no module is       *)
(* executed in a step unless validate_plugin accepts its location, so the  *)
(* module of a candidate that validation rejects is never executed.        *)
(***************************************************************************)
C34_ExecutedOnlyAfterValidation ==
  /\ [][\A path \in executed' \ executed : validate_plugin(path)]_vars
  /\ [](\A path \in executed : validate_plugin(path))

(***************************************************************************)
(* C35: no entity leaves the live map or the host registry without its own *)
(* cleanup() having been called: in every step, an instance that was a     *)
(* value of the live map (of the host registry) and no longer is one has   *)
(* had cleanup() called on it, and the unload that removes it is one that  *)
(* called cleanup() on it.                                                 *)
(***************************************************************************)
C35_RemovedOnlyAfterOwnCleanup ==
  [][\A i \in Insts :
       \/ InLive(i) /\ ~InLive(i)'
       \/ Registered(i) /\ ~Registered(i)'
       => /\ instances'[i].cleanup_calls > 0
          /\ \E t \in Tasks : task[t].pc = "cleanup" /\ task[t].victim = i
                               /\ task'[t] # task[t]]_vars

(***************************************************************************)
(* C36: a reload whose unload succeeded and whose load failed reports      *)
(* failure and leaves its name in neither the live map nor the host        *)
(* registry; the old entity is not restored.                               *)
(***************************************************************************)
C36_FailedReloadLeavesNameAbsent ==
  \A t \in Tasks :
    /\ Done(t) /\ task[t].op = "reload_plugin"
    /\ task[t].unload_out = "success"
    /\ task[t].load_out \in {"none", "raised"}
    => /\ ~task[t].result.success
       /\ ~Has(plugins, task[t].name)
       /\ ~Has(tools, task[t].name)
       /\ ~InLive(task[t].victim) /\ ~Registered(task[t].victim)

(***************************************************************************)
(* C37: granting or revoking a permission of a plugin changes the override *)
(* table only: what get_plugin_status reports for every name and what      *)
(* has_permission answers on every object stay as they were, and so do the *)
(* live map, the host registry and the objects (status, configuration);    *)
(* the permissions of an object never change after the load that resolved  *)
(* them.                                                                   *)
(***************************************************************************)
C37_OverridesLeaveLivePluginsAlone ==
  /\ [][plugin_permissions' # plugin_permissions =>
          /\ \A n \in Names :
               get_plugin_status(Registry, n)' = get_plugin_status(Registry, n)
          /\ \A i \in Insts, f \in PluginPermission :
               has_permission(instances[i], f)' = has_permission(instances[i], f)
          /\ UNCHANGED <<plugins, plugin_info, tools, instances>>]_vars
  /\ [][\A i \in Constructed :
          instances'[i].permissions = instances[i].permissions]_vars

\* "alpha" is active with write_files denied, as resolved when it was loaded,
\* and write_files has been granted to it since.
C37_Witness ==
  /\ Has(plugins, "alpha")
  /\ instances[Get(plugins, "alpha")].status = ACTIVE
  /\ ~has_permission(instances[Get(plugins, "alpha")], "write_files")
  /\ ~get_plugin_status(Registry, "alpha").permissions["write_files"]
  /\ "write_files" \in DOMAIN plugin_permissions["alpha"]
  /\ plugin_permissions["alpha"]["write_files"]

(***************************************************************************)
(* C38: the configuration collected for plugin P holds no entry of the     *)
(* environment that is addressed to another plugin (its key starts with    *)
(* PLUGIN_<Q>_ for a plugin Q other than P) and no permission-override     *)
(* entry (a key PLUGIN_SECURITY_<PLUGIN>_<PERMISSION>).                    *)
(***************************************************************************)
\* The key is PLUGIN_<Q>_ followed by something.
AddressedTo(key, Q) ==
  /\ Len(key) > 1 + Len(UpperTokens[Q])
  /\ SubSeq(key, 1, 1 + Len(UpperTokens[Q])) = <<"PLUGIN">> \o UpperTokens[Q]

\* The key is a permission override by the naming convention.
IsOverrideKey(key) ==
  \E n \in ConfNames, p \in PluginPermission : key = ConfiguredKey(n, p)

\* What the entry becomes in the configuration of P: the key without
\* PLUGIN_<P>_, in lower case, with the value.
AsConfigOf(P, item) ==
  LET start == 1 + Len(UpperTokens[P])
  IN <<[k \in 1..(Len(item[1]) - start) |-> lower[item[1][start + k]]], item[2]>>

C38_ConfigurationIsOwn ==
  inspected.call = "_get_plugin_config" =>
    \A k \in DOMAIN environ :
      LET item == environ[k]
      IN (\/ IsOverrideKey(item[1])
          \/ \E Q \in ConfNames \ {inspected.arg} : AddressedTo(item[1], Q))
           /\ AddressedTo(item[1], inspected.arg)
         => AsConfigOf(inspected.arg, item) \notin inspected.configuration

(***************************************************************************)
(* C39: reload_tool(name) returns True exactly when the tool was reloaded  *)
(* and is registered again under name; when it returns False the host     *)
(* registry is as before the call and no reload that the call set going    *)
(* runs afterwards.                                                        *)
(***************************************************************************)
\* This step is a call of reload_tool.
ReloadToolStep ==
  /\ inspected'.call = "reload_tool"
  /\ \/ inspected' # inspected
     \/ \E t \in Tasks : task'[t].pc = "scheduled" /\ task[t].pc # "scheduled"

C39_ReloadToolReportsTheReload ==
  /\ [][ReloadToolStep =>
          (inspected'.result <=>
             /\ Has(tools', inspected'.arg)
             /\ Has(tools, inspected'.arg) =>
                  Get(tools', inspected'.arg) # Get(tools, inspected'.arg))]_vars
  /\ [][ReloadToolStep /\ ~inspected'.result => tools' = tools]_vars
  /\ [][\A t \in Tasks :
          /\ task[t].pc = "scheduled" /\ task'[t].pc # "scheduled"
          /\ inspected.call = "reload_tool" /\ inspected.created = t
          => inspected.result]_vars

(***************************************************************************)
(* C40: when the event loop is fair and every initialize() and cleanup()   *)
(* returns or raises in the end, every load, unload, reload and shutdown   *)
(* operation that was started returns; and a shutdown_all_plugins accounts *)
(* for each name it found in the live map once: a name is still to be      *)
(* tried, is being unloaded, or was counted as a success or as a failure,  *)
(* and at the return none is left to be tried.                             *)
(***************************************************************************)
C40_OperationsReturn ==
  /\ \A t \in Tasks : (~Free(task[t])) ~> Done(t)
  /\ [](\A t \in Tasks :
          task[t].op = "shutdown_all_plugins" =>
            /\ Len(task[t].todo_names)
                 + (IF task[t].pc = "cleanup" THEN 1 ELSE 0)
                 + task[t].result.count_ok + task[t].result.count_failed
                 = task[t].result.total
            /\ Done(t) => task[t].todo_names = <<>>)

\* A shutdown that found two live plugins awaited the cleanup of both and
\* returned with both counted as successes.
C40_Witness ==
  \E t \in Tasks :
    /\ Done(t) /\ task[t].op = "shutdown_all_plugins"
    /\ task[t].result.total = 2 /\ task[t].result.count_ok = 2
    /\ task[t].cleanup_result = "ok"
    /\ plugins = <<>>

====
